---- MODULE Spec2Model ----
(***************************************************************************)
(* Relocatable Snap corpus generator (snap/gen/relocatable_snap_generator) *)
(* as a state machine: GenerateRelocatableSnapsImpl runs the LAYOUT pass,  *)
(* allocates the buffer, runs PrepareSnapGeneration and the EMIT pass.     *)
(* Byte strings are run-length sequences of [v, n] runs, the image is a    *)
(* map from buffer offsets to the records written there.                   *)
(***************************************************************************)
EXTENDS Integers, Sequences, FiniteSets, TLC

VARIABLES snapshots, options, pc, pass, idx, run, blocks, ref_maps, image,
          wlog, alog, refs, buffer, layout_sizes, layout_alog, block_sizes,
          counters, image_at_checksum, prev_run, err

\* DecodedInsn::FetchInstruction: the caller's errno, the tracee's text, and
\* the call's position, argument, locals and result.
VARIABLES errno, tracee, fetch_pc, fetch_addr, fetch_i, buf, fetch_result

fetch_vars == <<errno, tracee, fetch_pc, fetch_addr,
                fetch_i, buf, fetch_result>>

\* DecodedInsn: the cache line size set by the one-time initialisation, the
\* decoded instruction with the operand address xed_agen gives for the
\* registers passed, and the position and result of may_have_split_lock.
VARIABLES l1_cache_line_size, xed_insn, split_pc, split_result

split_vars == <<l1_cache_line_size, xed_insn, split_pc, split_result>>

\* The threads that construct DecodedInsn objects: the once flag of Decode,
\* each thread's position, how often the initialisation was entered, the
\* parts of it that are done, and the number of constructions begun.
VARIABLES xed_initialized_once_, thread_pc, init_runs, initialised, num_insns

once_vars == <<xed_initialized_once_, thread_pc, init_runs,
               initialised, num_insns>>

\* The random-bit tests: the bitset, its value when the test has set it, the
\* result of ChooseRandomBit, the popped indices and the test's position.
VARIABLES bitset, bits_set, chosen_bit, popped_bits, bit_pc

bit_vars == <<bitset, bits_set, chosen_bit, popped_bits, bit_pc>>

\* The state of the components beside the snap generator.
lib_vars == <<fetch_vars, split_vars, once_vars, bit_vars>>

\* The state of the snap generator.
gen_vars == <<snapshots, options, pc, pass, idx, run, blocks, ref_maps, image,
              wlog, alog, refs, buffer, layout_sizes, layout_alog,
              block_sizes, counters, image_at_checksum, prev_run, err>>

vars == <<snapshots, options, pc, pass, idx, run, blocks, ref_maps, image,
          wlog, alog, refs, buffer, layout_sizes, layout_alog, block_sizes,
          counters, image_at_checksum, prev_run, err, lib_vars>>

\* ---------------------------------------------------------------- bounds
MaxSnaps == 2

\* ------------------------------------------------------ program constants
kPageSize == 4096
kNominalLoadAddress == 0
kRepeating == 1
kSnapCorpusMagic == 1397639494
SizeofSnapCorpusHeader == 48
SizeofSnapCorpus == 64
SizeofSnap == 112
SizeofRegisterState == 16
SizeofSnapPtr == 8
SizeofSnapMemoryMapping == 48
SizeofSnapMemoryBytes == 32
SizeofGRegSet == 176
SizeofFPRegSet == 512
AlignofRecord == 8
AlignofFPRegSet == 16
SizeofUint64 == 8
OffsetofChecksum == 16
ArchId == 1
OtherArchId == 2

\* ------------------------------------------------------------- utilities
Max(a, b) == IF a >= b THEN a ELSE b

RoundUp(x, a) == ((x + a - 1) \div a) * a

IsPageAligned(x) == x % kPageSize = 0

EmptyFcn == [x \in {} |-> 0]

\* f with key k bound to v (insert or overwrite).
Put(f, k, v) == [x \in (DOMAIN f) \cup {k} |-> IF x = k THEN v ELSE f[x]]

RECURSIVE NumBytes(_)
NumBytes(bytes) ==
  IF bytes = <<>> THEN 0 ELSE Head(bytes).n + NumBytes(Tail(bytes))

\* The byte at position i (0-based) of a run-length byte string.
RECURSIVE ByteAt(_, _)
ByteAt(bytes, i) ==
  IF i < Head(bytes).n THEN Head(bytes).v
  ELSE ByteAt(Tail(bytes), i - Head(bytes).n)

\* Concatenation of two run-length byte strings, kept normalised.
ConcatBytes(a, b) ==
  IF a = <<>> THEN b
  ELSE IF b = <<>> THEN a
  ELSE IF a[Len(a)].v = b[1].v
    THEN SubSeq(a, 1, Len(a) - 1)
         \o <<[v |-> b[1].v, n |-> a[Len(a)].n + b[1].n]>>
         \o Tail(b)
    ELSE a \o b

IsRepeatingByteRun(bytes) ==
  /\ bytes # <<>>
  /\ \A i \in 1..Len(bytes) : bytes[i].v = bytes[1].v

\* 64-bit content hashes, modelled as collision-free functions of content.
MemoryChecksum(bytes) == <<"memory_checksum", bytes>>
RegisterMemoryChecksum(fpregs, gregs) ==
  [fpregs_checksum |-> <<"h", fpregs>>, gregs_checksum |-> <<"h", gregs>>]

ToMProtect(perms) ==
  (IF "r" \in perms THEN 1 ELSE 0) + (IF "w" \in perms THEN 2 ELSE 0)
  + (IF "x" \in perms THEN 4 ELSE 0)

\* Serialized register bytes are codes: 0 is the empty string, a positive
\* code c is the serialization of the register structure with value c - 1.
EmptyBytes == 0
DeserializeRegs(kind, src) == [type |-> kind, regs |-> src - 1]
\* memset with a value that is not zero.
ZeroRegs_Ones(kind) == [type |-> kind, regs |-> 1]

ZeroRegs(kind) == [type |-> kind, regs |-> 0]

\* Serialized register checksums: 0 is the empty string (no checksum),
\* MalformedChecksum does not deserialize.
MalformedChecksum == 99
DeserializeRegisterChecksumOk(src) == src # MalformedChecksum
DeserializeRegisterChecksum(src) ==
  [register_groups |-> IF src = 0 THEN 0 ELSE 1, checksum |-> src]

\* ------------------------------------------------------------- the inputs
\* Byte payloads: a mixed page, a uniform page (4096 x 0x90), a mixed
\* 3-byte string and a uniform 5-byte string.
PgM == <<[v |-> 1, n |-> 2048], [v |-> 2, n |-> 2048]>>
PgU == <<[v |-> 144, n |-> 4096]>>
SmM == <<[v |-> 1, n |-> 1], [v |-> 2, n |-> 2]>>
SmU == <<[v |-> 7, n |-> 5]>>

MemoryBytes(addr, bytes) == [start_address |-> addr, byte_values |-> bytes]
MemoryMapping(addr, n, perms) ==
  [start_address |-> addr, num_bytes |-> n, perms |-> perms]
RegisterState(g, f) == [gregs |-> g, fpregs |-> f]
EndState(regs, bytes, rc) ==
  [endpoint |-> 65600, registers |-> regs, memory_bytes |-> bytes,
   register_checksum |-> rc]

M1 == MemoryMapping(65536, 8192, {"r", "x"})
M2 == MemoryMapping(131072, 4096, {"r", "w"})

Snapshot(arch, id, mappings, bytes, regs, end_states) ==
  [architecture_id |-> arch, id |-> id, memory_mappings |-> mappings,
   memory_bytes |-> bytes, registers |-> regs,
   expected_end_states |-> end_states]

\* Memory layouts: mappings, memory bytes, end-state memory bytes.
Layouts ==
  { <<<< >>, << >>, << >>>>,
    <<<<M1>>, <<MemoryBytes(65544, PgU)>>, << >>>>,
    <<<<M1>>, <<MemoryBytes(65536, PgU)>>, << >>>>,
    <<<<M1, M2>>, <<MemoryBytes(65536, SmM), MemoryBytes(131072, PgM)>>,
      << >>>>,
    <<<<M1>>, <<MemoryBytes(65536, SmM), MemoryBytes(65539, SmU)>>,
      <<MemoryBytes(65536, SmM)>>>>,
    <<<<M2>>, <<MemoryBytes(131072, PgM)>>, <<MemoryBytes(131072, PgU)>>>> }

\* Register payloads: start (gregs, fpregs), end state (gregs, fpregs).
RegisterChoices ==
  { <<2, 1, 0, 0>>, <<0, 1, 1, 1>> }

BaseLayout == <<<<M1>>, << >>, << >>>>

MemorySnapshots ==
  { Snapshot(ArchId, <<97>>, l[1], l[2], RegisterState(1, 1),
             <<EndState(RegisterState(2, 2), l[3], 1)>>) : l \in Layouts }

RegisterSnapshots ==
  { Snapshot(ArchId, <<97>>, BaseLayout[1], BaseLayout[2],
             RegisterState(r[1], r[2]),
             <<EndState(RegisterState(r[3], r[4]), BaseLayout[3], 0)>>) :
      r \in RegisterChoices }

OtherSnapshots ==
  { Snapshot(ArchId, <<98, 99>>, <<M1>>, <<MemoryBytes(65536, PgM)>>,
             RegisterState(1, 1), <<EndState(RegisterState(2, 2), << >>, 1)>>),
    Snapshot(OtherArchId, <<97>>, <<M1>>, << >>,
             RegisterState(1, 1), <<EndState(RegisterState(2, 2), << >>, 1)>>),
    Snapshot(ArchId, <<97>>, <<M1>>, << >>,
             RegisterState(1, 1),
             <<EndState(RegisterState(2, 2), << >>, MalformedChecksum)>>),
    Snapshot(ArchId, <<97>>, <<M1>>, << >>, RegisterState(1, 1), << >>),
    Snapshot(ArchId, <<97>>, <<M1>>, << >>, RegisterState(1, 1),
             <<EndState(RegisterState(2, 2), << >>, 1),
               EndState(RegisterState(1, 2),
                        <<MemoryBytes(65536, SmM)>>, 1)>>) }

Snapshots == MemorySnapshots \cup RegisterSnapshots \cup OtherSnapshots

SnapshotLists ==
  UNION { [1..n -> Snapshots] : n \in 0..MaxSnaps }

Options == [compress_repeating_bytes : BOOLEAN]

\* options.counters is a pointer the caller may leave null.
CountersRequested == BOOLEAN

\* The caller's counters before the call: whether the pointer is supplied
\* is read at the end of GenerateRelocatableSnapsImpl.
NoCounters == [supplied |-> FALSE, map |-> "untouched"]

\* Addresses the buffer allocation may return (page aligned, not null).
BufferAddrs == {1048576, 2097152}

\* For each mapping, the memory bytes contained in it, in declared order.
SplitBytesByMapping(mappings, bytes) ==
  [i \in 1..Len(mappings) |->
     SelectSeq(bytes,
       LAMBDA b :
         /\ b.start_address >= mappings[i].start_address
         /\ b.start_address + NumBytes(b.byte_values)
              <= mappings[i].start_address + mappings[i].num_bytes)]

\* ------------------------------------------------------ RelocatableDataBlock
\* The sub data blocks with the two register blocks in the other order.
SubBlocks_Swapped ==
  <<"snap_block", "memory_bytes_block", "memory_mapping_block",
    "byte_data_block", "string_block", "gregs_block", "fpregs_block",
    "page_data_block">>

SubBlocks ==
  <<"snap_block", "memory_bytes_block", "memory_mapping_block",
    "byte_data_block", "string_block", "fpregs_block", "gregs_block",
    "page_data_block">>

BlockNames == {"main_block"} \cup {SubBlocks[i] : i \in 1..Len(SubBlocks)}

NewBlock == [size |-> 0, required_alignment |-> 1, contents |-> 0,
             load_address |-> 0]

kNullRef == [block |-> "null", byte_offset |-> 0]

\* The traversal state threaded through the walk: the data blocks, the
\* dedup maps, the buffer contents and the logs of allocations and writes.
\* An operation on a traversal whose err is set does nothing (the process
\* has aborted).
Fail(t, e) == IF t.err = "ok" THEN [t EXCEPT !.err = e] ELSE t

Allocate(t, b, size, alignment) ==
  LET off == RoundUp(t.blocks[b].size, alignment)
      nb == [t.blocks[b] EXCEPT
               !.size = off + size,
               !.required_alignment = Max(@, alignment)]
      ref == [block |-> b, byte_offset |-> off]
  IN  IF t.err # "ok" THEN [t |-> t, ref |-> ref]
      ELSE [t |-> [t EXCEPT !.blocks[b] = nb,
                            !.alog = Append(@, [block |-> b,
                                                byte_offset |-> off,
                                                size |-> size])],
            ref |-> ref]

AllocateBlock(t, b, other) ==
  Allocate(t, b, t.blocks[other].size, t.blocks[other].required_alignment)

ResetSizeAndAlignment(t, b) ==
  [t EXCEPT !.blocks[b].size = 0, !.blocks[b].required_alignment = 1]

RefAdd(ref, k) == [ref EXCEPT !.byte_offset = @ + k]

\* The contents pointer stored where the load address is meant.
LoadAddress_AsContents(t, ref) ==
  t.blocks[ref.block].contents + ref.byte_offset

LoadAddress(t, ref) == t.blocks[ref.block].load_address + ref.byte_offset

Contents(t, ref) == t.blocks[ref.block].contents + ref.byte_offset

\* The buffer offset a Ref's contents pointer designates.
BufferOffset(t, ref) == Contents(t, ref) - t.buffer.addr

\* A store of `cell` (len bytes) through ref.contents().
Write(t, ref, cell) ==
  IF t.err # "ok" THEN t
  ELSE IF t.blocks[ref.block].contents = 0 THEN Fail(t, "null_contents")
  ELSE [t EXCEPT
          !.image = Put(@, BufferOffset(t, ref), cell),
          !.wlog = Append(@, [block |-> ref.block,
                              byte_offset |-> ref.byte_offset,
                              at |-> BufferOffset(t, ref),
                              len |-> cell.len,
                              type |-> cell.type])]

\* The register structure stored at ref.contents(); untouched buffer memory
\* reads as zero.
ReadRegs(t, ref) ==
  IF BufferOffset(t, ref) \in DOMAIN t.image
    THEN t.image[BufferOffset(t, ref)].regs
    ELSE 0

ReadBytes(t, ref) ==
  IF BufferOffset(t, ref) \in DOMAIN t.image
    THEN t.image[BufferOffset(t, ref)].data
    ELSE << >>

\* ------------------------------------------------------------ the walker
\* F applied to the value of v (v is evaluated once).
Bind(v, F(_)) == CHOOSE r \in {F(x) : x \in {v}} : TRUE

\* ProcessMemoryBytes without the dedup cache.
ProcessMemoryBytes_NoDedup(p, t, dchecks, memory_bytes) ==
  Bind(IF /\ IsPageAligned(memory_bytes.start_address)
          /\ IsPageAligned(NumBytes(memory_bytes.byte_values))
         THEN Allocate(t, "page_data_block",
                       NumBytes(memory_bytes.byte_values), kPageSize)
         ELSE Allocate(t, "byte_data_block",
                       NumBytes(memory_bytes.byte_values), SizeofUint64),
    LAMBDA a :
      [t |-> IF p = "kGeneration"
               THEN Write(a.t, a.ref,
                      [type |-> "bytes",
                       len |-> NumBytes(memory_bytes.byte_values),
                       data |-> memory_bytes.byte_values])
               ELSE a.t,
       ref |-> a.ref])

\* ProcessMemoryBytes with a dedup cache keyed by payload and alignment.
ProcessMemoryBytes_AlignedKey(p, t, dchecks, memory_bytes) ==
  LET byte_data == memory_bytes.byte_values
      page_aligned_data ==
        /\ IsPageAligned(memory_bytes.start_address)
        /\ IsPageAligned(NumBytes(byte_data))
      key == <<byte_data, page_aligned_data>>
  IN  IF key \in DOMAIN t.maps.bytes
        THEN [t |-> t, ref |-> t.maps.bytes[key]]
        ELSE Bind(IF page_aligned_data
                    THEN Allocate(t, "page_data_block", NumBytes(byte_data),
                                  kPageSize)
                    ELSE Allocate(t, "byte_data_block", NumBytes(byte_data),
                                  SizeofUint64),
               LAMBDA a :
                 Bind(IF a.t.err # "ok" THEN a.t
                      ELSE [a.t EXCEPT !.maps.bytes = Put(@, key, a.ref)],
                   LAMBDA t1 :
                     [t |-> IF p = "kGeneration"
                              THEN Write(t1, a.ref,
                                     [type |-> "bytes",
                                      len |-> NumBytes(byte_data),
                                      data |-> byte_data])
                              ELSE t1,
                      ref |-> a.ref]))

\* ProcessMemoryBytes copying the bytes again on a dedup hit.
ProcessMemoryBytes_CopyOnHit(p, t, dchecks, memory_bytes) ==
  LET byte_data == memory_bytes.byte_values
      page_aligned_data ==
        /\ IsPageAligned(memory_bytes.start_address)
        /\ IsPageAligned(NumBytes(byte_data))
      cell == [type |-> "bytes", len |-> NumBytes(byte_data),
               data |-> byte_data]
  IN  IF byte_data \in DOMAIN t.maps.bytes
        THEN Bind(t.maps.bytes[byte_data], LAMBDA ref :
               [t |-> IF p = "kGeneration" THEN Write(t, ref, cell) ELSE t,
                ref |-> ref])
        ELSE Bind(IF page_aligned_data
                    THEN Allocate(t, "page_data_block", NumBytes(byte_data),
                                  kPageSize)
                    ELSE Allocate(t, "byte_data_block", NumBytes(byte_data),
                                  SizeofUint64),
               LAMBDA a :
                 Bind(IF a.t.err # "ok" THEN a.t
                      ELSE [a.t EXCEPT !.maps.bytes = Put(@, byte_data, a.ref)],
                   LAMBDA t1 :
                     [t |-> IF p = "kGeneration" THEN Write(t1, a.ref, cell)
                            ELSE t1,
                      ref |-> a.ref]))

ProcessMemoryBytes(p, t, dchecks, memory_bytes) ==
  LET byte_data == memory_bytes.byte_values
      page_aligned_data ==
        /\ IsPageAligned(memory_bytes.start_address)
        /\ IsPageAligned(NumBytes(byte_data))
  IN  IF byte_data \in DOMAIN t.maps.bytes
        THEN Bind(t.maps.bytes[byte_data], LAMBDA ref :
               IF p = "kGeneration" /\ dchecks /\ t.err = "ok"
                  /\ ReadBytes(t, ref) # byte_data
                 THEN [t |-> Fail(t, "dcheck_memcmp"), ref |-> ref]
                 ELSE [t |-> t, ref |-> ref])
        ELSE Bind(IF page_aligned_data
                    THEN Allocate(t, "page_data_block", NumBytes(byte_data),
                                  kPageSize)
                    ELSE Allocate(t, "byte_data_block", NumBytes(byte_data),
                                  SizeofUint64),
               LAMBDA a :
                 Bind(IF a.t.err # "ok" THEN a.t
                      ELSE [a.t EXCEPT !.maps.bytes = Put(@, byte_data, a.ref)],
                   LAMBDA t1 :
                     [t |-> IF p = "kGeneration"
                              THEN Write(t1, a.ref,
                                     [type |-> "bytes",
                                      len |-> NumBytes(byte_data),
                                      data |-> byte_data])
                              ELSE t1,
                      ref |-> a.ref]))

ProcessAllocatedMemoryBytes(p, t, dchecks, memory_bytes, memory_bytes_ref) ==
  IF options.compress_repeating_bytes
     /\ IsRepeatingByteRun(memory_bytes.byte_values)
    THEN IF p = "kGeneration"
           THEN Write(t, memory_bytes_ref,
                  [type |-> "SnapMemoryBytes",
                   len |-> SizeofSnapMemoryBytes,
                   start_address |-> memory_bytes.start_address,
                   flags |-> kRepeating,
                   value |-> ByteAt(memory_bytes.byte_values, 0),
                   size |-> NumBytes(memory_bytes.byte_values)])
           ELSE t
    ELSE Bind(ProcessMemoryBytes(p, t, dchecks, memory_bytes), LAMBDA r :
           IF p = "kGeneration"
             THEN Write(r.t, memory_bytes_ref,
                    [type |-> "SnapMemoryBytes",
                     len |-> SizeofSnapMemoryBytes,
                     start_address |-> memory_bytes.start_address,
                     flags |-> 0,
                     size |-> NumBytes(memory_bytes.byte_values),
                     elements |-> LoadAddress(r.t, r.ref)])
             ELSE r.t)

RECURSIVE MemoryBytesLoop(_, _, _, _, _, _)
RECURSIVE MemoryBytesLoop_NoAdvance(_, _, _, _, _, _)
\* The loop over a memory-bytes list with the element Ref never advanced.
MemoryBytesLoop_NoAdvance(p, t, dchecks, list, j, ref) ==
  IF j > Len(list) THEN t
  ELSE Bind(ProcessAllocatedMemoryBytes(p, t, dchecks, list[j], ref),
         LAMBDA t1 : MemoryBytesLoop(p, t1, dchecks, list, j + 1, ref))

MemoryBytesLoop(p, t, dchecks, list, j, ref) ==
  IF j > Len(list) THEN t
  ELSE Bind(ProcessAllocatedMemoryBytes(p, t, dchecks, list[j], ref),
         LAMBDA t1 :
           MemoryBytesLoop(p, t1, dchecks, list, j + 1,
                           RefAdd(ref, SizeofSnapMemoryBytes)))

ProcessMemoryBytesList(p, t, dchecks, memory_bytes_list) ==
  Bind(Allocate(t, "memory_bytes_block",
                SizeofSnapMemoryBytes * Len(memory_bytes_list),
                AlignofRecord),
    LAMBDA a :
      [t |-> MemoryBytesLoop(p, a.t, dchecks, memory_bytes_list, 1, a.ref),
       ref |-> a.ref])

\* The checksum input without the records that are repeating-byte runs.
RECURSIVE AllBytes_SkipRepeating(_)
AllBytes_SkipRepeating(list) ==
  IF list = << >> THEN << >>
  ELSE IF IsRepeatingByteRun(Head(list).byte_values)
    THEN AllBytes_SkipRepeating(Tail(list))
  ELSE ConcatBytes(Head(list).byte_values, AllBytes_SkipRepeating(Tail(list)))

RECURSIVE AllBytes(_)
AllBytes(list) ==
  IF list = << >> THEN << >>
  ELSE ConcatBytes(Head(list).byte_values, AllBytes(Tail(list)))

\* ProcessMemoryMapping constructing the record in both passes.
ProcessMemoryMapping_AnyPass(p, t, dchecks, memory_mapping, memory_bytes_list, ref) ==
  Bind(ProcessMemoryBytesList(p, t, dchecks, memory_bytes_list), LAMBDA r :
    Write(r.t, ref,
      [type |-> "SnapMemoryMapping",
       len |-> SizeofSnapMemoryMapping,
       start_address |-> memory_mapping.start_address,
       num_bytes |-> memory_mapping.num_bytes,
       perms |-> ToMProtect(memory_mapping.perms),
       memory_checksum |-> MemoryChecksum(AllBytes(memory_bytes_list)),
       memory_bytes_size |-> Len(memory_bytes_list),
       memory_bytes_elements |-> LoadAddress(r.t, r.ref)]))

ProcessMemoryMapping(p, t, dchecks, memory_mapping, memory_bytes_list, ref) ==
  Bind(ProcessMemoryBytesList(p, t, dchecks, memory_bytes_list), LAMBDA r :
    IF p = "kGeneration"
      THEN Write(r.t, ref,
             [type |-> "SnapMemoryMapping",
              len |-> SizeofSnapMemoryMapping,
              start_address |-> memory_mapping.start_address,
              num_bytes |-> memory_mapping.num_bytes,
              perms |-> ToMProtect(memory_mapping.perms),
              memory_checksum |-> MemoryChecksum(AllBytes(memory_bytes_list)),
              memory_bytes_size |-> Len(memory_bytes_list),
              memory_bytes_elements |-> LoadAddress(r.t, r.ref)])
      ELSE r.t)

RECURSIVE MemoryMappingsLoop(_, _, _, _, _, _, _)
MemoryMappingsLoop(p, t, dchecks, mappings, bytes_per_mapping, i, ref) ==
  IF i > Len(mappings) THEN t
  ELSE Bind(ProcessMemoryMapping(p, t, dchecks, mappings[i],
                                 bytes_per_mapping[i], ref),
         LAMBDA t1 :
           MemoryMappingsLoop(p, t1, dchecks, mappings, bytes_per_mapping,
                              i + 1, RefAdd(ref, SizeofSnapMemoryMapping)))

ProcessMemoryMappings(p, t, dchecks, memory_mappings, bytes_per_mapping) ==
  Bind(Allocate(t, "memory_mapping_block",
                SizeofSnapMemoryMapping * Len(memory_mappings),
                AlignofRecord),
    LAMBDA a :
      [t |-> MemoryMappingsLoop(p, a.t, dchecks, memory_mappings,
                                bytes_per_mapping, 1, a.ref),
       ref |-> a.ref])

RegisterBlock(kind) == IF kind = "GRegSet" THEN "gregs_block" ELSE "fpregs_block"

\* One dedup map shared by both register kinds.
RegisterMap_Shared(kind) == "gregs"

RegisterMap(kind) == IF kind = "GRegSet" THEN "gregs" ELSE "fpregs"
SizeofRegs(kind) == IF kind = "GRegSet" THEN SizeofGRegSet ELSE SizeofFPRegSet
\* A register structure aligned beyond a page.
AlignofRegs_TwoPages(kind) == 2 * kPageSize

AlignofRegs(kind) == IF kind = "GRegSet" THEN AlignofRecord ELSE AlignofFPRegSet

ProcessRegisterSet(p, t, kind, serialized_registers, allow_empty) ==
  IF serialized_registers \in DOMAIN t.maps[RegisterMap(kind)]
    THEN [t |-> t, ref |-> t.maps[RegisterMap(kind)][serialized_registers]]
    ELSE Bind(Allocate(t, RegisterBlock(kind), SizeofRegs(kind),
                       AlignofRegs(kind)),
           LAMBDA a :
             Bind(IF a.t.err # "ok" THEN a.t
                  ELSE [a.t EXCEPT !.maps[RegisterMap(kind)] =
                                     Put(@, serialized_registers, a.ref)],
               LAMBDA t1 :
                 [t |-> IF p # "kGeneration" THEN t1
                        ELSE IF serialized_registers # EmptyBytes
                          THEN Write(t1, a.ref,
                                 [len |-> SizeofRegs(kind)]
                                 @@ DeserializeRegs(kind, serialized_registers))
                        ELSE IF ~allow_empty
                          THEN Fail(t1, "check_allow_empty_register_state")
                        ELSE Write(t1, a.ref,
                               [len |-> SizeofRegs(kind)] @@ ZeroRegs(kind)),
                  ref |-> a.ref]))

\* The checksum taken from the buffer as it was before the two register
\* sets were processed.
ProcessRegisterState_ChecksumFirst(p, t, register_states, allow_empty_register_state) ==
  Bind(ProcessRegisterSet(p, t, "GRegSet", register_states.gregs,
                          allow_empty_register_state),
    LAMBDA g :
      Bind(ProcessRegisterSet(p, g.t, "FPRegSet", register_states.fpregs,
                              allow_empty_register_state),
        LAMBDA f :
          [t |-> f.t,
           gregs |-> g.ref,
           fpregs |-> f.ref,
           registers_memory_checksum |->
             IF p = "kGeneration" /\ f.t.err = "ok"
               THEN RegisterMemoryChecksum(ReadRegs(t, f.ref),
                                           ReadRegs(t, g.ref))
               ELSE 0]))

ProcessRegisterState(p, t, register_states, allow_empty_register_state) ==
  Bind(ProcessRegisterSet(p, t, "GRegSet", register_states.gregs,
                          allow_empty_register_state),
    LAMBDA g :
      Bind(ProcessRegisterSet(p, g.t, "FPRegSet", register_states.fpregs,
                              allow_empty_register_state),
        LAMBDA f :
          [t |-> f.t,
           gregs |-> g.ref,
           fpregs |-> f.ref,
           registers_memory_checksum |->
             IF p = "kGeneration" /\ f.t.err = "ok"
               THEN RegisterMemoryChecksum(ReadRegs(f.t, f.ref),
                                           ReadRegs(f.t, g.ref))
               ELSE 0]))

\* CHECK_OK(register_checksum_or.status()) left out.
CheckOkRegisterChecksum_Skipped(t, end_state) == t

\* CHECK_OK(register_checksum_or.status()), line 485.
CheckOkRegisterChecksum(t, end_state) ==
  IF DeserializeRegisterChecksumOk(end_state.register_checksum) THEN t
  ELSE Fail(t, "check_ok_register_checksum")

\* The register states processed end state first.
ProcessSnapshotRegisters_EndFirst(p, a, mm, eb, snapshot, end_state, snapshot_ref) ==
  Bind(ProcessRegisterState(p, eb.t, end_state.registers, TRUE), LAMBDA es :
    Bind(ProcessRegisterState(p, es.t, snapshot.registers, FALSE), LAMBDA rs :
      IF p = "kLayout" THEN rs.t
      ELSE Bind(Write(rs.t, a.ref,
                  [type |-> "string", len |-> Len(snapshot.id) + 1,
                   data |-> Append(snapshot.id, 0)]),
             LAMBDA t0 : Bind(CheckOkRegisterChecksum(t0, end_state),
             LAMBDA t1 :
               Write(t1, snapshot_ref,
                 [type |-> "Snap", len |-> SizeofSnap,
                  id |-> LoadAddress(t1, a.ref),
                  memory_mappings_size |-> Len(snapshot.memory_mappings),
                  memory_mappings_elements |-> LoadAddress(t1, mm.ref),
                  registers_fpregs |-> LoadAddress(t1, rs.fpregs),
                  registers_gregs |-> LoadAddress(t1, rs.gregs),
                  end_state_instruction_address |-> end_state.endpoint,
                  end_state_registers_fpregs |-> LoadAddress(t1, es.fpregs),
                  end_state_registers_gregs |-> LoadAddress(t1, es.gregs),
                  end_state_memory_bytes_size |-> Len(end_state.memory_bytes),
                  end_state_memory_bytes_elements |-> LoadAddress(t1, eb.ref),
                  end_state_register_checksum |->
                    DeserializeRegisterChecksum(end_state.register_checksum),
                  registers_memory_checksum |-> rs.registers_memory_checksum,
                  end_state_registers_memory_checksum |->
                    es.registers_memory_checksum])))))

\* ProcessAllocated(pass, snapshot, ref), lines 455-509: the register states
\* and, in the generation pass, the id string and the Snap record.
ProcessSnapshotRegisters(p, a, mm, eb, snapshot, end_state, snapshot_ref) ==
  Bind(ProcessRegisterState(p, eb.t, snapshot.registers, FALSE), LAMBDA rs :
    Bind(ProcessRegisterState(p, rs.t, end_state.registers, TRUE), LAMBDA es :
      IF p = "kLayout" THEN es.t
      ELSE Bind(Write(es.t, a.ref,
                  [type |-> "string", len |-> Len(snapshot.id) + 1,
                   data |-> Append(snapshot.id, 0)]),
             LAMBDA t0 : Bind(CheckOkRegisterChecksum(t0, end_state),
             LAMBDA t1 :
               Write(t1, snapshot_ref,
                 [type |-> "Snap", len |-> SizeofSnap,
                  id |-> LoadAddress(t1, a.ref),
                  memory_mappings_size |-> Len(snapshot.memory_mappings),
                  memory_mappings_elements |-> LoadAddress(t1, mm.ref),
                  registers_fpregs |-> LoadAddress(t1, rs.fpregs),
                  registers_gregs |-> LoadAddress(t1, rs.gregs),
                  end_state_instruction_address |-> end_state.endpoint,
                  end_state_registers_fpregs |-> LoadAddress(t1, es.fpregs),
                  end_state_registers_gregs |-> LoadAddress(t1, es.gregs),
                  end_state_memory_bytes_size |-> Len(end_state.memory_bytes),
                  end_state_memory_bytes_elements |-> LoadAddress(t1, eb.ref),
                  end_state_register_checksum |->
                    DeserializeRegisterChecksum(end_state.register_checksum),
                  registers_memory_checksum |-> rs.registers_memory_checksum,
                  end_state_registers_memory_checksum |->
                    es.registers_memory_checksum])))))

\* CHECK_EQ(snapshot.architecture_id(), Arch::architecture_id) left out.
CheckArchitecture_Skipped(t, snapshot) == t

\* CHECK_EQ(snapshot.architecture_id(), Arch::architecture_id), lines 437-438.
CheckArchitecture(t, snapshot) ==
  IF snapshot.architecture_id = ArchId THEN t
  ELSE Fail(t, "check_architecture_id")

\* What expected_end_states()[0] of an empty vector can do in a build without
\* DCHECKs: the read faults, or it yields an indeterminate end state.
OutOfRangeReads == {"crash", "indeterminate"}

\* The outcomes to choose from when snapshot is walked: a snapshot with an
\* end state has its first end state read in range.
OutOfRangeReadsOf(snapshot) ==
  IF Len(snapshot.expected_end_states) = 0 THEN OutOfRangeReads
  ELSE {"in_range"}

\* One representative of the values such a read can yield.
IndeterminateEndState == EndState(RegisterState(2, 2), << >>, 1)

\* const Snapshot::EndState& end_state = snapshot.expected_end_states()[0].
EndStateOf(snapshot) ==
  IF Len(snapshot.expected_end_states) = 0 THEN IndeterminateEndState
  ELSE snapshot.expected_end_states[1]

\* The walk with ids deduplicated: a snapshot whose id an earlier snapshot
\* of the pass carries shares that snapshot's copy.
StringAllocations(log) == SelectSeq(log, LAMBDA e : e.block = "string_block")

IdRef_Shared(t, snapshot) ==
  IF \E h \in 1..(idx - 1) : snapshots[h].id = snapshot.id
    THEN LET h == CHOOSE x \in 1..(idx - 1) : snapshots[x].id = snapshot.id
         IN  [t |-> t,
              ref |-> [block |-> "string_block",
                       byte_offset |->
                         StringAllocations(t.alog)[h].byte_offset]]
    ELSE Allocate(t, "string_block", Len(snapshot.id) + 1, 1)

ProcessAllocatedSnapshot_SharedIds(p, t, dchecks, out_of_range, snapshot, snapshot_ref) ==
  Bind(CheckArchitecture(t, snapshot), LAMBDA t0 :
    Bind(IdRef_Shared(t0, snapshot), LAMBDA a :
      Bind(ProcessMemoryMappings(p, a.t, dchecks, snapshot.memory_mappings,
             SplitBytesByMapping(snapshot.memory_mappings,
                                 snapshot.memory_bytes)),
        LAMBDA mm :
          IF dchecks /\ Len(snapshot.expected_end_states) # 1
            THEN Fail(mm.t, "dcheck_expected_end_states")
          ELSE IF Len(snapshot.expected_end_states) = 0
                  /\ out_of_range = "crash"
            THEN Fail(mm.t, "out_of_range_expected_end_states")
          ELSE
            Bind(ProcessMemoryBytesList(p, mm.t, dchecks,
                   EndStateOf(snapshot).memory_bytes),
              LAMBDA eb :
                ProcessSnapshotRegisters(p, a, mm, eb, snapshot,
                  EndStateOf(snapshot), snapshot_ref)))))

\* The walk with the id allocated without room for its NUL terminator.
ProcessAllocatedSnapshot_NoTerminator(p, t, dchecks, out_of_range, snapshot, snapshot_ref) ==
  Bind(CheckArchitecture(t, snapshot), LAMBDA t0 :
    Bind(Allocate(t0, "string_block", Len(snapshot.id), 1), LAMBDA a :
      Bind(ProcessMemoryMappings(p, a.t, dchecks, snapshot.memory_mappings,
             SplitBytesByMapping(snapshot.memory_mappings,
                                 snapshot.memory_bytes)),
        LAMBDA mm :
          IF dchecks /\ Len(snapshot.expected_end_states) # 1
            THEN Fail(mm.t, "dcheck_expected_end_states")
          ELSE IF Len(snapshot.expected_end_states) = 0
                  /\ out_of_range = "crash"
            THEN Fail(mm.t, "out_of_range_expected_end_states")
          ELSE
            Bind(ProcessMemoryBytesList(p, mm.t, dchecks,
                   EndStateOf(snapshot).memory_bytes),
              LAMBDA eb :
                ProcessSnapshotRegisters(p, a, mm, eb, snapshot,
                  EndStateOf(snapshot), snapshot_ref)))))

\* ProcessAllocated(pass, snapshot, ref). dchecks tells whether the build
\* evaluates DCHECKs; without them an empty expected_end_states vector is
\* indexed out of range, with the outcome out_of_range.
ProcessAllocatedSnapshot(p, t, dchecks, out_of_range, snapshot, snapshot_ref) ==
  Bind(CheckArchitecture(t, snapshot), LAMBDA t0 :
    Bind(Allocate(t0, "string_block", Len(snapshot.id) + 1, 1), LAMBDA a :
      Bind(ProcessMemoryMappings(p, a.t, dchecks, snapshot.memory_mappings,
             SplitBytesByMapping(snapshot.memory_mappings,
                                 snapshot.memory_bytes)),
        LAMBDA mm :
          IF dchecks /\ Len(snapshot.expected_end_states) # 1
            THEN Fail(mm.t, "dcheck_expected_end_states")
          ELSE IF Len(snapshot.expected_end_states) = 0
                  /\ out_of_range = "crash"
            THEN Fail(mm.t, "out_of_range_expected_end_states")
          ELSE
            Bind(ProcessMemoryBytesList(p, mm.t, dchecks,
                   EndStateOf(snapshot).memory_bytes),
              LAMBDA eb :
                ProcessSnapshotRegisters(p, a, mm, eb, snapshot,
                  EndStateOf(snapshot), snapshot_ref)))))

\* -------------------------------------------------------------- the state
Trav ==
  [blocks |-> blocks, maps |-> ref_maps, image |-> image, wlog |-> wlog,
   alog |-> alog, err |-> err, buffer |-> buffer]

NewMaps == [bytes |-> EmptyFcn, gregs |-> EmptyFcn, fpregs |-> EmptyFcn]

NoBuffer == [addr |-> 0, size |-> 0]

NoRefs == [corpus_ref |-> kNullRef, snap_array_elements_ref |-> kNullRef,
           snaps_ref |-> kNullRef]

\* The size map without the entry of the main block.
BlockSizes_NoMain(t) ==
  [b \in BlockNames \ {"main_block"} |-> t.blocks[b].size]

BlockSizes(t) == [b \in BlockNames |-> t.blocks[b].size]

\* Assigns the traversal state t after a step; an aborted step ends the
\* process.
Becomes(t, next_pc) ==
  /\ blocks' = t.blocks
  /\ ref_maps' = t.maps
  /\ image' = t.image
  /\ wlog' = t.wlog
  /\ alog' = t.alog
  /\ err' = t.err
  /\ pc' = IF t.err = "ok" THEN next_pc ELSE "aborted"

\* No FetchInstruction call is under way.
FetchIdle ==
  /\ errno = 0
  /\ tracee = << >>
  /\ fetch_pc = "idle"
  /\ fetch_addr = 0
  /\ fetch_i = 0
  /\ buf = << >>
  /\ fetch_result = [ok |-> FALSE, message |-> "none"]

\* No DecodedInsn exists.
SplitIdle ==
  /\ l1_cache_line_size = 0
  /\ xed_insn = << >>
  /\ split_pc = "idle"
  /\ split_result = "none"

\* No thread has constructed a DecodedInsn.
OnceIdle ==
  /\ xed_initialized_once_ = "init"
  /\ thread_pc = << >>
  /\ init_runs = 0
  /\ initialised = {}
  /\ num_insns = 0

\* No random-bit test runs.
BitIdle ==
  /\ bitset = {}
  /\ bits_set = {}
  /\ chosen_bit = -1
  /\ popped_bits = << >>
  /\ bit_pc = "idle"

\* The components beside the snap generator are not in use.
LibIdle == FetchIdle /\ SplitIdle /\ OnceIdle /\ BitIdle

Init ==
  /\ LibIdle
  /\ snapshots \in SnapshotLists
  /\ options \in Options
  /\ pc = "process_begin"
  /\ pass = "kLayout"
  /\ idx = 1
  /\ run = 1
  /\ blocks = [b \in BlockNames |-> NewBlock]
  /\ ref_maps = NewMaps
  /\ image = EmptyFcn
  /\ wlog = << >>
  /\ alog = << >>
  /\ refs = NoRefs
  /\ buffer = NoBuffer
  /\ layout_sizes = EmptyFcn
  /\ layout_alog = << >>
  /\ block_sizes = EmptyFcn
  /\ counters = NoCounters
  /\ image_at_checksum = EmptyFcn
  /\ prev_run = [image |-> EmptyFcn, addr |-> 0]
  /\ err = "ok"

\* Process, lines 519-528: the SnapCorpus, the Snap pointer array and the
\* Snap array are allocated in snap_block.
ProcessBegin ==
  /\ pc = "process_begin"
  /\ \E c \in {Allocate(Trav, "snap_block", SizeofSnapCorpus,
                          AlignofRecord)} :
     \E e \in {Allocate(c.t, "snap_block", SizeofSnapPtr * Len(snapshots),
                          AlignofRecord)} :
     \E s \in {Allocate(e.t, "snap_block", SizeofSnap * Len(snapshots),
                          AlignofRecord)} :
       /\ refs' = [corpus_ref |-> c.ref,
                   snap_array_elements_ref |-> e.ref,
                   snaps_ref |-> s.ref]
       /\ Becomes(s.t, IF Len(snapshots) = 0 THEN "process_merge"
                       ELSE "process_snapshots")
  /\ idx' = 1
  /\ UNCHANGED <<lib_vars, snapshots, options, pass, run, buffer, layout_sizes,
                 layout_alog, block_sizes, counters, image_at_checksum,
                 prev_run>>

\* Process, lines 529-531: one iteration of the loop over the snapshots.
ProcessSnapshot ==
  /\ pc = "process_snapshots"
  /\ idx <= Len(snapshots)
  /\ \E dchecks \in BOOLEAN :
     \E out_of_range \in OutOfRangeReadsOf(snapshots[idx]) :
     \E t0 \in {Trav} :
     \E t \in {ProcessAllocatedSnapshot(pass, t0, dchecks, out_of_range,
                  snapshots[idx],
                  RefAdd(refs.snaps_ref, (idx - 1) * SizeofSnap))} :
       Becomes(t, IF idx = Len(snapshots) THEN "process_merge"
                  ELSE "process_snapshots")
  /\ idx' = idx + 1
  /\ UNCHANGED <<lib_vars, snapshots, options, pass, run, refs, buffer, layout_sizes,
                 layout_alog, block_sizes, counters, image_at_checksum,
                 prev_run>>

\* The merge with snap_block left out of the main block.
RECURSIVE MergeBlocks_SkipSnapBlock(_, _)
MergeBlocks_SkipSnapBlock(t, i) ==
  IF i > Len(SubBlocks) THEN t
  ELSE IF SubBlocks[i] = "snap_block" THEN MergeBlocks_SkipSnapBlock(t, i + 1)
  ELSE Bind(AllocateBlock(t, "main_block", SubBlocks[i]), LAMBDA a :
         MergeBlocks_SkipSnapBlock(a.t, i + 1))

\* The merge with every sub-block placed without regard to its alignment.
RECURSIVE MergeBlocks_Unaligned(_, _)
MergeBlocks_Unaligned(t, i) ==
  IF i > Len(SubBlocks) THEN t
  ELSE Bind(Allocate(t, "main_block", t.blocks[SubBlocks[i]].size, 1),
         LAMBDA a : MergeBlocks_Unaligned(a.t, i + 1))

RECURSIVE MergeBlocks(_, _)
MergeBlocks(t, i) ==
  IF i > Len(SubBlocks) THEN t
  ELSE Bind(AllocateBlock(t, "main_block", SubBlocks[i]), LAMBDA a :
         MergeBlocks(a.t, i + 1))

\* Process, lines 533-548: the sub-blocks are merged into the main block.
ProcessMerge ==
  /\ pc = "process_merge"
  /\ \E t0 \in {Trav} : \E t \in {MergeBlocks(t0, 1)} :
       Becomes(t, IF pass = "kGeneration" THEN "write_corpus"
                  ELSE "process_return")
  /\ UNCHANGED <<lib_vars, snapshots, options, pass, idx, run, refs, buffer,
                 layout_sizes, layout_alog, block_sizes, counters,
                 image_at_checksum, prev_run>>

\* Process, lines 551-572: the SnapCorpus record is constructed in place.
WriteCorpus ==
  /\ pc = "write_corpus"
  /\ \E t0 \in {Trav} : \E t \in {Write(t0, refs.corpus_ref,
               [type |-> "SnapCorpus", len |-> SizeofSnapCorpus,
                magic |-> kSnapCorpusMagic,
                header_size |-> SizeofSnapCorpusHeader,
                checksum |-> 0,
                num_bytes |-> t0.blocks["main_block"].size,
                corpus_type_size |-> SizeofSnapCorpus,
                snap_type_size |-> SizeofSnap,
                register_state_type_size |-> SizeofRegisterState,
                architecture_id |-> ArchId,
                snaps_size |-> Len(snapshots),
                snaps_elements |->
                  LoadAddress(t0, refs.snap_array_elements_ref)])} :
       Becomes(t, "write_elements")
  /\ UNCHANGED <<lib_vars, snapshots, options, pass, idx, run, refs, buffer,
                 layout_sizes, layout_alog, block_sizes, counters,
                 image_at_checksum, prev_run>>

\* The pointer array filled with the address of the first Snap only.
RECURSIVE ElementsLoop_FirstSnap(_, _)
ElementsLoop_FirstSnap(t, i) ==
  IF i > Len(snapshots) THEN t
  ELSE Bind(
         Write(t, RefAdd(refs.snap_array_elements_ref, (i - 1) * SizeofSnapPtr),
               [type |-> "SnapPtr", len |-> SizeofSnapPtr,
                ptr |-> LoadAddress(t, refs.snaps_ref)]),
         LAMBDA t1 : ElementsLoop_FirstSnap(t1, i + 1))

RECURSIVE ElementsLoop(_, _)
ElementsLoop(t, i) ==
  IF i > Len(snapshots) THEN t
  ELSE Bind(
         Write(t, RefAdd(refs.snap_array_elements_ref, (i - 1) * SizeofSnapPtr),
               [type |-> "SnapPtr", len |-> SizeofSnapPtr,
                ptr |-> LoadAddress(t, RefAdd(refs.snaps_ref,
                                              (i - 1) * SizeofSnap))]),
         LAMBDA t1 : ElementsLoop(t1, i + 1))

\* Process, lines 574-582: the Snap pointer array is filled.
WriteElements ==
  /\ pc = "write_elements"
  /\ \E t0 \in {Trav} : \E t \in {ElementsLoop(t0, 1)} :
       Becomes(t, "write_checksum")
  /\ UNCHANGED <<lib_vars, snapshots, options, pass, idx, run, refs, buffer,
                 layout_sizes, layout_alog, block_sizes, counters,
                 image_at_checksum, prev_run>>

\* CorpusChecksumCalculator over n bytes of the buffer from offset `at`; the
\* checksum field of the header is left out of the hash.
CorpusChecksum(img, at, n) ==
  <<"corpus_checksum",
    [o \in {x \in DOMAIN img : at <= x /\ x < at + n} |->
       IF img[o].type = "SnapCorpus" THEN [img[o] EXCEPT !.checksum = 0]
       ELSE img[o]]>>

\* The number of bytes hashed when the corpus is sized sizeof(SnapCorpus).
ChecksumLength_CorpusOnly(img, at) == SizeofSnapCorpus

\* The number of bytes hashed: corpus->header.num_bytes.
ChecksumLength(img, at) == img[at].num_bytes

\* Process, lines 584-589: the checksum is computed and stored.
WriteChecksum ==
  /\ pc = "write_checksum"
  /\ LET at == BufferOffset(Trav, refs.corpus_ref)
         sum == CorpusChecksum(image, at, ChecksumLength(image, at))
     IN  /\ image' = [image EXCEPT ![at].checksum = sum]
         /\ wlog' = Append(wlog,
                      [block |-> refs.corpus_ref.block,
                       byte_offset |->
                         refs.corpus_ref.byte_offset + OffsetofChecksum,
                       at |-> at + OffsetofChecksum,
                       len |-> SizeofUint64,
                       type |-> "checksum"])
  /\ image_at_checksum' = image
  /\ pc' = "process_return"
  /\ UNCHANGED <<lib_vars, snapshots, options, pass, idx, run, blocks, ref_maps, alog,
                 refs, buffer, layout_sizes, layout_alog, block_sizes,
                 counters, prev_run, err>>

\* Process, lines 592-603: the block sizes are returned.
ProcessReturn ==
  /\ pc = "process_return"
  /\ block_sizes' = BlockSizes(Trav)
  /\ IF pass = "kLayout"
       THEN /\ layout_sizes' = BlockSizes(Trav)
            /\ layout_alog' = alog
            /\ pc' = "allocate_buffer"
       ELSE /\ UNCHANGED <<layout_sizes, layout_alog>>
            /\ pc' = "return"
  /\ UNCHANGED <<lib_vars, snapshots, options, pass, idx, run, blocks, ref_maps, image,
                 wlog, alog, refs, buffer, counters, image_at_checksum,
                 prev_run, err>>

\* GenerateRelocatableSnapsImpl, lines 650-653.
AllocateBuffer ==
  /\ pc = "allocate_buffer"
  /\ IF blocks["main_block"].required_alignment <= kPageSize
       THEN /\ \E addr \in BufferAddrs :
                 buffer' = [addr |-> addr, size |-> blocks["main_block"].size]
            /\ pc' = "prepare"
            /\ err' = err
       ELSE /\ buffer' = buffer
            /\ pc' = "aborted"
            /\ err' = "check_required_alignment"
  /\ UNCHANGED <<lib_vars, snapshots, options, pass, idx, run, blocks, ref_maps, image,
                 wlog, alog, refs, layout_sizes, layout_alog, block_sizes,
                 counters, image_at_checksum, prev_run>>

\* prepare_sub_data_block with the contents address taken as load address.
prepare_sub_data_block_ContentsAsLoad(t, b) ==
  Bind(AllocateBlock(t, "main_block", b), LAMBDA a :
    ResetSizeAndAlignment(
      [a.t EXCEPT !.blocks[b].load_address = Contents(a.t, a.ref),
                  !.blocks[b].contents = Contents(a.t, a.ref)], b))

\* prepare_sub_data_block without block.set_load_address.
prepare_sub_data_block_LoadUnset(t, b) ==
  Bind(AllocateBlock(t, "main_block", b), LAMBDA a :
    ResetSizeAndAlignment(
      [a.t EXCEPT !.blocks[b].contents = Contents(a.t, a.ref)], b))

prepare_sub_data_block(t, b) ==
  Bind(AllocateBlock(t, "main_block", b), LAMBDA a :
    ResetSizeAndAlignment(
      [a.t EXCEPT !.blocks[b].load_address = LoadAddress(a.t, a.ref),
                  !.blocks[b].contents = Contents(a.t, a.ref)], b))

RECURSIVE PrepareSubBlocks(_, _)
PrepareSubBlocks(t, i) ==
  IF i > Len(SubBlocks) THEN t
  ELSE Bind(prepare_sub_data_block(t, SubBlocks[i]), LAMBDA t1 :
         PrepareSubBlocks(t1, i + 1))

\* PrepareSnapGeneration without the clearing of the dedup maps.
PrepareSnapGeneration_KeepMaps(t, content_buffer, load_address) ==
  LET t1 == [t EXCEPT !.blocks["main_block"].contents = content_buffer,
                      !.blocks["main_block"].load_address = load_address]
      t2 == PrepareSubBlocks(ResetSizeAndAlignment(t1, "main_block"), 1)
  IN  ResetSizeAndAlignment(t2, "main_block")

\* PrepareSnapGeneration without the final reset of the main block.
PrepareSnapGeneration_NoFinalReset(t, content_buffer, load_address) ==
  LET t1 == [t EXCEPT !.blocks["main_block"].contents = content_buffer,
                      !.blocks["main_block"].load_address = load_address]
      t2 == PrepareSubBlocks(ResetSizeAndAlignment(t1, "main_block"), 1)
  IN  [t2 EXCEPT !.maps = NewMaps]

\* PrepareSnapGeneration with the main block loaded at the buffer address.
PrepareSnapGeneration_LoadAtBuffer(t, content_buffer, load_address) ==
  LET t1 == [t EXCEPT !.blocks["main_block"].contents = content_buffer,
                      !.blocks["main_block"].load_address = content_buffer]
      t2 == PrepareSubBlocks(ResetSizeAndAlignment(t1, "main_block"), 1)
      t3 == ResetSizeAndAlignment(t2, "main_block")
  IN  [t3 EXCEPT !.maps = NewMaps]

\* PrepareSnapGeneration without the reset of the main block that precedes
\* the placing of the sub-blocks.
PrepareSnapGeneration_NoFirstReset(t, content_buffer, load_address) ==
  LET t1 == [t EXCEPT !.blocks["main_block"].contents = content_buffer,
                      !.blocks["main_block"].load_address = load_address]
      t2 == PrepareSubBlocks(t1, 1)
      t3 == ResetSizeAndAlignment(t2, "main_block")
  IN  [t3 EXCEPT !.maps = NewMaps]

PrepareSnapGeneration(t, content_buffer, load_address) ==
  LET t1 == [t EXCEPT !.blocks["main_block"].contents = content_buffer,
                      !.blocks["main_block"].load_address = load_address]
      t2 == PrepareSubBlocks(ResetSizeAndAlignment(t1, "main_block"), 1)
      t3 == ResetSizeAndAlignment(t2, "main_block")
  IN  [t3 EXCEPT !.maps = NewMaps]

\* GenerateRelocatableSnapsImpl, lines 655-660.
Prepare ==
  /\ pc = "prepare"
  /\ \E t0 \in {Trav} :
     \E t \in {PrepareSnapGeneration(t0, buffer.addr, kNominalLoadAddress)} :
       /\ blocks' = t.blocks
       /\ ref_maps' = t.maps
  /\ alog' = << >>
  /\ pass' = "kGeneration"
  /\ pc' = "process_begin"
  /\ UNCHANGED <<lib_vars, snapshots, options, idx, run, image, wlog, refs, buffer,
                 layout_sizes, layout_alog, block_sizes, counters,
                 image_at_checksum, prev_run, err>>

\* GenerateRelocatableSnapsImpl, lines 661-666.
Return ==
  /\ pc = "return"
  /\ \E requested \in CountersRequested :
       counters' = [supplied |-> requested,
                    map |-> IF requested THEN block_sizes ELSE counters.map]
  /\ pc' = "done"
  /\ UNCHANGED <<lib_vars, snapshots, options, pass, idx, run, blocks, ref_maps, image,
                 wlog, alog, refs, buffer, layout_sizes, layout_alog,
                 block_sizes, image_at_checksum, prev_run, err>>

\* A second call of GenerateRelocatableSnapsImpl on the same snapshots and
\* options, with a new Traversal and a new buffer.
Regenerate ==
  /\ pc = "done"
  /\ run = 1
  /\ run' = 2
  /\ prev_run' = [image |-> image, addr |-> buffer.addr]
  /\ pc' = "process_begin"
  /\ pass' = "kLayout"
  /\ idx' = 1
  /\ blocks' = [b \in BlockNames |-> NewBlock]
  /\ ref_maps' = NewMaps
  /\ image' = EmptyFcn
  /\ wlog' = << >>
  /\ alog' = << >>
  /\ refs' = NoRefs
  /\ buffer' = NoBuffer
  /\ layout_sizes' = EmptyFcn
  /\ layout_alog' = << >>
  /\ block_sizes' = EmptyFcn
  /\ image_at_checksum' = EmptyFcn
  /\ counters' = NoCounters
  /\ UNCHANGED <<lib_vars, snapshots, options, err>>

Next ==
  \/ ProcessBegin
  \/ ProcessSnapshot
  \/ ProcessMerge
  \/ WriteCorpus
  \/ WriteElements
  \/ WriteChecksum
  \/ ProcessReturn
  \/ AllocateBuffer
  \/ Prepare
  \/ Return

Spec == Init /\ [][Next]_vars

NextTwice == Next \/ Regenerate

SpecTwice == Init /\ [][NextTwice]_vars

\* The snap generator is not in use.
GeneratorIdle ==
  /\ snapshots = << >>
  /\ options = [compress_repeating_bytes |-> FALSE]
  /\ pc = "idle"
  /\ pass = "kLayout"
  /\ idx = 1
  /\ run = 1
  /\ blocks = [b \in BlockNames |-> NewBlock]
  /\ ref_maps = NewMaps
  /\ image = EmptyFcn
  /\ wlog = << >>
  /\ alog = << >>
  /\ refs = NoRefs
  /\ buffer = NoBuffer
  /\ layout_sizes = EmptyFcn
  /\ layout_alog = << >>
  /\ block_sizes = EmptyFcn
  /\ counters = NoCounters
  /\ image_at_checksum = EmptyFcn
  /\ prev_run = [image |-> EmptyFcn, addr |-> 0]
  /\ err = "ok"

\* ------------------------------------------- DecodedInsn::FetchInstruction
\* src/common/decoded_insn.cc. A word of the tracee's text is the sequence of
\* its eight bytes in memory order; PTRACE_PEEKTEXT returns the word with that
\* representation and buf is read back as bytes, so no byte changes place.
kMaxX86InsnLength == 15
SizeofWord == 8
BufWords == 2

EIO == 5
EINTR == 4

\* A word of n equal bytes.
Bytes(n, v) == [k \in 1..n |-> v]

\* The words the tracee's text may hold: code, zeros, and the word that reads
\* as -1.
Words == { <<72, 137, 216, 144, 144, 144, 144, 195>>, Bytes(8, 0), Bytes(8, 255) }

\* The text at an address that is not mapped: no word.
Unmapped == << >>

\* The addresses of the tracee's words and the addresses fetched from.
WordAddresses == {4096, 4104, 4112}
FetchAddresses == {4096, 4104}

\* The tracee's text: at every word address a word, or nothing mapped.
Tracees == [WordAddresses -> Words \cup {Unmapped}]

\* The values errno may hold when FetchInstruction is called: errno is
\* thread-local state that any earlier failed call of the thread leaves set.
ErrnosAtCall == {0, EINTR}

\* uint64_t buf[2] = {}.
ZeroBuf == [k \in 0..(BufWords - 1) |-> Bytes(SizeofWord, 0)]

\* uint64_t read_addr = addr + sizeof(buf[0]) * i.
ReadAddr(a, i) == a + SizeofWord * i

\* ptrace(PTRACE_PEEKTEXT, pid, read_addr) called with errno = e: a failed
\* request returns -1 and sets errno, a successful one returns the word and
\* leaves errno as it was.
Ptrace(e, text, read_addr) ==
  IF text[read_addr] = Unmapped
    THEN [value |-> Bytes(SizeofWord, 255), errno |-> EIO]
    ELSE [value |-> text[read_addr], errno |-> e]

\* The bytes of buf in memory order.
BufBytes(b) == b[0] \o b[1]

\* Snapshot::MemoryBytes(addr, ByteData(buf, kMaxX86InsnLength)).
FetchedBytes(a, b) ==
  [start_address |-> a,
   byte_values |-> SubSeq(BufBytes(b), 1, kMaxX86InsnLength)]

\* FetchInstruction is entered: buf is zeroed, the loop starts at i = 0.
FetchBegin ==
  /\ fetch_pc = "call"
  /\ buf' = ZeroBuf
  /\ fetch_i' = 0
  /\ fetch_pc' = "peek"
  /\ UNCHANGED <<gen_vars, bit_vars, split_vars, once_vars, errno, tracee, fetch_addr, fetch_result>>

\* buf[i] = ptrace(PTRACE_PEEKTEXT, pid, AsPtr(read_addr), nullptr).
FetchPeek ==
  /\ fetch_pc = "peek"
  /\ fetch_i < BufWords
  /\ \E r \in {Ptrace(errno, tracee,
                       ReadAddr(fetch_addr, fetch_i))} :
       /\ buf' = [buf EXCEPT ![fetch_i] = r.value]
       /\ errno' = r.errno
  /\ fetch_pc' = "check"
  /\ UNCHANGED <<gen_vars, bit_vars, split_vars, once_vars, tracee, fetch_addr, fetch_i, fetch_result>>

\* if (errno != 0) return absl::InternalError(...); otherwise ++i.
FetchCheck ==
  /\ fetch_pc = "check"
  /\ IF errno # 0
       THEN /\ fetch_result' = [ok |-> FALSE, message |-> "was not mapped"]
            /\ fetch_pc' = "returned"
            /\ fetch_i' = fetch_i
       ELSE /\ fetch_i' = fetch_i + 1
            /\ fetch_pc' = IF fetch_i + 1 < BufWords THEN "peek" ELSE "return"
            /\ fetch_result' = fetch_result
  /\ UNCHANGED <<gen_vars, bit_vars, split_vars, once_vars, errno, tracee, fetch_addr, buf>>

\* return Snapshot::MemoryBytes(addr, ByteData(buf, kMaxX86InsnLength)).
FetchReturn ==
  /\ fetch_pc = "return"
  /\ fetch_result' = [ok |-> TRUE, value |-> FetchedBytes(fetch_addr, buf)]
  /\ fetch_pc' = "returned"
  /\ UNCHANGED <<gen_vars, bit_vars, split_vars, once_vars, errno, tracee, fetch_addr, fetch_i, buf>>

FetchInit ==
  /\ GeneratorIdle
  /\ BitIdle
  /\ SplitIdle
  /\ OnceIdle
  /\ errno \in ErrnosAtCall
  /\ tracee \in Tracees
  /\ fetch_addr \in FetchAddresses
  /\ fetch_pc = "call"
  /\ fetch_i = 0
  /\ buf = << >>
  /\ fetch_result = [ok |-> FALSE, message |-> "none"]

FetchNext ==
  \/ FetchBegin
  \/ FetchPeek
  \/ FetchCheck
  \/ FetchReturn

SpecFetch == FetchInit /\ [][FetchNext]_vars

\* ---------------------------------------- DecodedInsn::may_have_split_lock
\* uint64_t and size_t are modelled with UintBits bits: the arithmetic of the
\* code is the same modulo 2^UintBits.
UintBits == 16
UintRange == 2 ^ UintBits

\* Conversion to the unsigned type (of sysconf's long, of an unsigned sum).
ToUint(x) == x % UintRange

\* a & b on unsigned values.
RECURSIVE BitAnd(_, _)
BitAnd(a, b) ==
  IF a = 0 \/ b = 0 THEN 0
  ELSE (a % 2) * (b % 2) + 2 * BitAnd(a \div 2, b \div 2)

\* The instruction classes of is_locking: the classes with a LOCK prefix,
\* XCHG, and a class that is neither.
LockIclasses == {"ADD_LOCK", "CMPXCHG16B_LOCK", "XADD_LOCK"}
Iclasses == LockIclasses \cup {"XCHG", "ADD"}

\* The outcomes of memory_operand_address(0, regs): the status of xed_agen
\* and the address.
AgenError == [ok |-> FALSE, value |-> 0]
AgenValue(a) == [ok |-> TRUE, value |-> a]
OperandAddresses ==
  {0, 56, 57, 60, 63, 64, 4157, UintRange - 65, UintRange - 4, UintRange - 1}
OperandLengths == {1, 4, 8, 16}

\* The decoded instructions: XED decodes a class with a LOCK prefix only with
\* a memory operand (a register-only form is undecodable, lines 154-157).
DecodedInsns ==
  { i \in [iclass : Iclasses,
           number_of_memory_operands : 0..2,
           memory_operand_length : OperandLengths,
           operand_address_or :
             {AgenError} \cup {AgenValue(a) : a \in OperandAddresses}] :
      i.iclass \in LockIclasses => i.number_of_memory_operands > 0 }

\* What sysconf(_SC_LEVEL1_DCACHE_LINESIZE) may return: the line size, 0 when
\* the C library does not know it, -1 when it does not know the name.
SysconfResults == {64, 0, -1}

\* The DCHECKs of the initialisation: DCHECK_GE(l1_cache_line_size, 0) on a
\* size_t and DCHECK_EQ(l1_cache_line_size & (l1_cache_line_size - 1), 0).
InitDchecksPass(size) ==
  /\ size >= 0
  /\ BitAnd(size, ToUint(size - 1)) = 0

\* DecodedInsn::is_locking.
is_locking(insn) ==
  IF insn.iclass \in LockIclasses THEN TRUE
  ELSE IF insn.iclass = "XCHG" THEN insn.number_of_memory_operands > 0
  ELSE FALSE

\* DecodedInsn::may_have_split_lock(regs).
may_have_split_lock(insn, line_size) ==
  IF ~is_locking(insn) THEN FALSE
  ELSE IF insn.number_of_memory_operands # 1 THEN FALSE
  ELSE IF ~insn.operand_address_or.ok THEN FALSE
  ELSE LET offset == BitAnd(insn.operand_address_or.value,
                            ToUint(line_size - 1))
       IN  ToUint(offset + insn.memory_operand_length) > line_size

\* The one-time initialisation in Decode, lines 196-205, and the decoding of
\* an instruction; a failed DCHECK ends the process.
DecodeInit ==
  /\ split_pc = "decode"
  /\ \E dchecks \in BOOLEAN : \E result \in SysconfResults :
       /\ l1_cache_line_size' = ToUint(result)
       /\ split_pc' = IF dchecks /\ ~InitDchecksPass(ToUint(result))
                        THEN "aborted" ELSE "decoded"
  /\ UNCHANGED <<gen_vars, bit_vars, fetch_vars, once_vars, xed_insn, split_result>>

\* may_have_split_lock(regs) is called on the decoded instruction.
MayHaveSplitLock ==
  /\ split_pc = "decoded"
  /\ split_result' = may_have_split_lock(xed_insn, l1_cache_line_size)
  /\ split_pc' = "returned"
  /\ UNCHANGED <<gen_vars, bit_vars, fetch_vars, once_vars, l1_cache_line_size, xed_insn>>

SplitInit ==
  /\ GeneratorIdle
  /\ BitIdle
  /\ FetchIdle
  /\ OnceIdle
  /\ l1_cache_line_size = 0
  /\ xed_insn \in DecodedInsns
  /\ split_pc = "decode"
  /\ split_result = "none"

SplitNext ==
  \/ DecodeInit
  \/ MayHaveSplitLock

SpecSplitLock == SplitInit /\ [][SplitNext]_vars

\* ------------------------------------- DecodedInsn::Decode, absl::call_once
MaxThreads == 2
MaxInsns == 3
Threads == 1..MaxThreads

\* The parts of the one-time initialisation, lines 197-202.
InitParts ==
  {"xed_tables_init", "xed_agen_register_callback", "l1_cache_line_size"}

\* The positions of a thread inside a constructor, lines 57-66 and 194-236;
\* a constructor that ended the process on a DCHECK never returns.
ConstructPcs ==
  {"call_once", "xed_tables_init", "xed_agen_register_callback",
   "sysconf", "init_done", "xed_decode", "aborted"}

\* The constructions that have returned.
Constructed ==
  num_insns - Cardinality({t \in Threads : thread_pc[t] \in ConstructPcs})

\* A thread constructs a DecodedInsn: the constructor calls Decode, which
\* comes to absl::call_once.
Construct(t) ==
  /\ thread_pc[t] = "idle"
  /\ num_insns < MaxInsns
  /\ num_insns' = num_insns + 1
  /\ thread_pc' = [thread_pc EXCEPT ![t] = "call_once"]
  /\ UNCHANGED <<gen_vars, bit_vars, fetch_vars, split_vars,
                 xed_initialized_once_, init_runs, initialised>>

\* Replacement of DecodeCallOnce: a thread enters the initialisation
\* whenever it is not done, also while another thread runs it.
DecodeCallOnce_Unsynchronised(t) ==
  /\ thread_pc[t] = "call_once"
  /\ xed_initialized_once_ # "done"
  /\ xed_initialized_once_' = "running"
  /\ init_runs' = init_runs + 1
  /\ thread_pc' = [thread_pc EXCEPT ![t] = "xed_tables_init"]
  /\ UNCHANGED <<gen_vars, bit_vars, fetch_vars, split_vars, initialised, num_insns>>

\* absl::call_once(xed_initialized_once_, init), line 207, for the thread
\* that finds the flag unused: it runs init. A thread that finds the flag
\* taken waits until the flag is done.
DecodeCallOnce(t) ==
  /\ thread_pc[t] = "call_once"
  /\ xed_initialized_once_ = "init"
  /\ xed_initialized_once_' = "running"
  /\ init_runs' = init_runs + 1
  /\ thread_pc' = [thread_pc EXCEPT ![t] = "xed_tables_init"]
  /\ UNCHANGED <<gen_vars, bit_vars, fetch_vars, split_vars, initialised, num_insns>>

\* absl::call_once for a thread that finds the initialisation done.
DecodeOnceDone(t) ==
  /\ thread_pc[t] = "call_once"
  /\ xed_initialized_once_ = "done"
  /\ thread_pc' = [thread_pc EXCEPT ![t] = "xed_decode"]
  /\ UNCHANGED <<gen_vars, bit_vars, fetch_vars, split_vars,
                 xed_initialized_once_, init_runs, initialised, num_insns>>

\* xed_tables_init(), lines 197-198.
InitTables(t) ==
  /\ thread_pc[t] = "xed_tables_init"
  /\ initialised' = initialised \cup {"xed_tables_init"}
  /\ thread_pc' = [thread_pc EXCEPT ![t] = "xed_agen_register_callback"]
  /\ UNCHANGED <<gen_vars, bit_vars, fetch_vars, split_vars,
                 xed_initialized_once_, init_runs, num_insns>>

\* xed_agen_register_callback(...), lines 199-200.
InitAgen(t) ==
  /\ thread_pc[t] = "xed_agen_register_callback"
  /\ initialised' = initialised \cup {"xed_agen_register_callback"}
  /\ thread_pc' = [thread_pc EXCEPT ![t] = "sysconf"]
  /\ UNCHANGED <<gen_vars, bit_vars, fetch_vars, split_vars,
                 xed_initialized_once_, init_runs, num_insns>>

\* l1_cache_line_size = sysconf(...) and the two DCHECKs, lines 202-204; a
\* failed DCHECK ends the process inside the initialisation.
InitLineSize(t) ==
  /\ thread_pc[t] = "sysconf"
  /\ \E dchecks \in BOOLEAN : \E result \in SysconfResults :
       /\ l1_cache_line_size' = ToUint(result)
       /\ thread_pc' =
            [thread_pc EXCEPT
               ![t] = IF dchecks /\ ~InitDchecksPass(ToUint(result))
                        THEN "aborted" ELSE "init_done"]
  /\ initialised' = initialised \cup {"l1_cache_line_size"}
  /\ UNCHANGED <<gen_vars, bit_vars, fetch_vars, xed_insn, split_pc, split_result,
                 xed_initialized_once_, init_runs, num_insns>>

\* init returns: call_once marks the flag done and returns.
InitReturn(t) ==
  /\ thread_pc[t] = "init_done"
  /\ xed_initialized_once_' = "done"
  /\ thread_pc' = [thread_pc EXCEPT ![t] = "xed_decode"]
  /\ UNCHANGED <<gen_vars, bit_vars, fetch_vars, split_vars,
                 init_runs, initialised, num_insns>>

\* The decoding proper, lines 209-235, and the return of the constructor.
XedDecode(t) ==
  /\ thread_pc[t] = "xed_decode"
  /\ thread_pc' = [thread_pc EXCEPT ![t] = "idle"]
  /\ UNCHANGED <<gen_vars, bit_vars, fetch_vars, split_vars,
                 xed_initialized_once_, init_runs, initialised, num_insns>>

\* A thread calls may_have_split_lock on a constructed DecodedInsn.
SplitLockCall(t) ==
  /\ thread_pc[t] = "idle"
  /\ Constructed > 0
  /\ thread_pc' = [thread_pc EXCEPT ![t] = "may_have_split_lock"]
  /\ UNCHANGED <<gen_vars, bit_vars, fetch_vars, split_vars,
                 xed_initialized_once_, init_runs, initialised, num_insns>>

\* may_have_split_lock reads l1_cache_line_size, lines 181-185, and returns.
SplitLockRead(t) ==
  /\ thread_pc[t] = "may_have_split_lock"
  /\ thread_pc' = [thread_pc EXCEPT ![t] = "idle"]
  /\ UNCHANGED <<gen_vars, bit_vars, fetch_vars, split_vars,
                 xed_initialized_once_, init_runs, initialised, num_insns>>

OnceInit ==
  /\ GeneratorIdle
  /\ BitIdle
  /\ FetchIdle
  /\ SplitIdle
  /\ xed_initialized_once_ = "init"
  /\ thread_pc = [t \in Threads |-> "idle"]
  /\ init_runs = 0
  /\ initialised = {}
  /\ num_insns = 0

OnceNext ==
  \E t \in Threads :
    \/ Construct(t)
    \/ DecodeCallOnce(t)
    \/ DecodeOnceDone(t)
    \/ InitTables(t)
    \/ InitAgen(t)
    \/ InitLineSize(t)
    \/ InitReturn(t)
    \/ XedDecode(t)
    \/ SplitLockCall(t)
    \/ SplitLockRead(t)

SpecOnce == OnceInit /\ [][OnceNext]_vars

\* ------------------------------------- ChooseRandomBit and PopRandomBit
\* The tests use bitsets of kNumBits = 100 bits; the model uses NumBits.
NumBits == 4
BitIndexes == 0..(NumBits - 1)

\* The values the random number generator may give.
RngValues == 0..(NumBits - 1)

\* The bitsets a test sets up: at least one bit is set.
Bitsets == (SUBSET BitIndexes) \ {{}}

MinBit(b) == CHOOSE i \in b : \A j \in b : i <= j

\* The index of the k-th set bit, counted from 0.
RECURSIVE NthSetBit(_, _)
NthSetBit(b, k) ==
  IF k = 0 THEN MinBit(b) ELSE NthSetBit(b \ {MinBit(b)}, k - 1)

\* ChooseRandomBit(rng, bits): a uniformly drawn one of the set bits.
ChooseRandomBit(r, b) == NthSetBit(b, r % Cardinality(b))

\* PopRandomBit(rng, bits): the chosen bit, which is reset in bits.
PopRandomBit(r, b) ==
  [bit |-> ChooseRandomBit(r, b), bits |-> b \ {ChooseRandomBit(r, b)}]

\* EXPECT_EQ(i, ChooseRandomBit(rng, bits)), line 45.
ChooseBit ==
  /\ bit_pc = "set"
  /\ \E r \in RngValues : chosen_bit' = ChooseRandomBit(r, bitset)
  /\ bit_pc' = "chosen"
  /\ UNCHANGED <<gen_vars, fetch_vars, split_vars, once_vars,
                 bitset, bits_set, popped_bits>>

\* while (bits.any()) popped_bits.push_back(PopRandomBit(rng, bits)),
\* lines 61-63, and the single pop of line 47.
PopLoop ==
  /\ bit_pc \in {"set", "chosen", "loop"}
  /\ bitset # {}
  /\ \E r \in RngValues :
       /\ popped_bits' = Append(popped_bits, PopRandomBit(r, bitset).bit)
       /\ bitset' = PopRandomBit(r, bitset).bits
  /\ bit_pc' = "loop"
  /\ UNCHANGED <<gen_vars, fetch_vars, split_vars, once_vars,
                 bits_set, chosen_bit>>

\* Replacement of LoopExit: the loop ends when at most one bit is set.
LoopExit_OneLeft ==
  /\ bit_pc = "loop"
  /\ Cardinality(bitset) <= 1
  /\ bit_pc' = "done"
  /\ UNCHANGED <<gen_vars, fetch_vars, split_vars, once_vars,
                 bitset, bits_set, chosen_bit, popped_bits>>

\* The loop ends when bits.any() is false, line 61.
LoopExit ==
  /\ bit_pc = "loop"
  /\ bitset = {}
  /\ bit_pc' = "done"
  /\ UNCHANGED <<gen_vars, fetch_vars, split_vars, once_vars,
                 bitset, bits_set, chosen_bit, popped_bits>>

BitInit ==
  /\ GeneratorIdle
  /\ FetchIdle
  /\ SplitIdle
  /\ OnceIdle
  /\ bitset \in Bitsets
  /\ bits_set = bitset
  /\ chosen_bit = -1
  /\ popped_bits = << >>
  /\ bit_pc = "set"

BitNext ==
  \/ ChooseBit
  \/ PopLoop
  \/ LoopExit

\* The test runs on: its loop has no other exit and nothing blocks it.
SpecRandomBits == BitInit /\ [][BitNext]_vars /\ WF_vars(BitNext)

\* ------------------------------------------------------------ properties
IsPrefix(a, b) == Len(a) <= Len(b) /\ SubSeq(b, 1, Len(a)) = a

\* The EMIT pass has run to its end.
Emitted == pass = "kGeneration" /\ pc \in {"return", "done"}

\* The pointer values held by a record of the image.
PointersOf(cell) ==
  IF cell.type = "SnapCorpus" THEN {cell.snaps_elements}
  ELSE IF cell.type = "SnapPtr" THEN {cell.ptr}
  ELSE IF cell.type = "Snap"
    THEN {cell.id, cell.memory_mappings_elements, cell.registers_fpregs,
          cell.registers_gregs, cell.end_state_registers_fpregs,
          cell.end_state_registers_gregs,
          cell.end_state_memory_bytes_elements}
  ELSE IF cell.type = "SnapMemoryMapping" THEN {cell.memory_bytes_elements}
  ELSE IF cell.type = "SnapMemoryBytes" /\ cell.flags # kRepeating
    THEN {cell.elements}
  ELSE {}

\* C1: the EMIT pass repeats the allocations of the LAYOUT pass: at every
\* point of the EMIT pass the Refs allocated so far are the first Refs of the
\* LAYOUT pass, and when the EMIT pass ends the two passes have made the same
\* allocations and report the same nine block sizes.
C1_LayoutEmitSameAllocations ==
  pass = "kGeneration" =>
    /\ IsPrefix(alog, layout_alog)
    /\ Emitted => alog = layout_alog /\ block_sizes = layout_sizes

C1_Witness ==
  /\ pc = "done"
  /\ Len(snapshots) = 2
  /\ alog = layout_alog
  /\ block_sizes["page_data_block"] > 0
  /\ block_sizes["byte_data_block"] > 0

Cell(o) == IF o \in DOMAIN image THEN image[o] ELSE [type |-> "none"]

IsCell(o, type) == Cell(o).type = type

SnapPtrAt(i) == Cell(0).snaps_elements + (i - 1) * SizeofSnapPtr

SnapAddr(i) == IF IsCell(SnapPtrAt(i), "SnapPtr") THEN Cell(SnapPtrAt(i)).ptr
               ELSE -1

MappingAddr(i, j) ==
  IF IsCell(SnapAddr(i), "Snap")
    THEN Cell(SnapAddr(i)).memory_mappings_elements
           + (j - 1) * SizeofSnapMemoryMapping
    ELSE -1

\* A site is a memory-bytes record of the input: <<i, j, k>> is the k-th
\* record of mapping j of snapshot i, <<i, 0, k>> the k-th end-state record.
SiteList(i, j) ==
  IF j = 0 THEN EndStateOf(snapshots[i]).memory_bytes
  ELSE SplitBytesByMapping(snapshots[i].memory_mappings,
                           snapshots[i].memory_bytes)[j]

Sites ==
  UNION { UNION { {<<i, j, k>> : k \in 1..Len(SiteList(i, j))} :
                  j \in 0..Len(snapshots[i].memory_mappings) } :
          i \in 1..Len(snapshots) }

SiteRecord(s) == SiteList(s[1], s[2])[s[3]]

SiteArray(i, j) ==
  IF j = 0
    THEN IF IsCell(SnapAddr(i), "Snap")
           THEN Cell(SnapAddr(i)).end_state_memory_bytes_elements ELSE -1
    ELSE IF IsCell(MappingAddr(i, j), "SnapMemoryMapping")
           THEN Cell(MappingAddr(i, j)).memory_bytes_elements ELSE -1

SiteAddr(s) == SiteArray(s[1], s[2]) + (s[3] - 1) * SizeofSnapMemoryBytes

SiteCell(s) == Cell(SiteAddr(s))

\* The record of site s was emitted with a backing byte array.
Stored(s) ==
  /\ SiteCell(s).type = "SnapMemoryBytes"
  /\ SiteCell(s).flags # kRepeating

StoredSites == {s \in Sites : Stored(s)}

PageAlignedRecord(r) ==
  IsPageAligned(r.start_address) /\ IsPageAligned(NumBytes(r.byte_values))

\* The range of load addresses of a sub-block after PrepareSnapGeneration.
InBlock(b, addr, len) ==
  /\ blocks[b].load_address <= addr
  /\ addr + len <= blocks[b].load_address + blocks[b].size

AllocationsIn(log, bs) == {k \in 1..Len(log) : log[k].block \in bs}

DataBlocks == {"byte_data_block", "page_data_block"}

SameBytes(a, b) ==
  /\ NumBytes(a) = NumBytes(b)
  /\ \A i \in 0..(NumBytes(a) - 1) : ByteAt(a, i) = ByteAt(b, i)

\* C3: byte payloads of records emitted with a backing array are stored once:
\* records with equal payloads hold equal elements pointers, the pointer
\* designates bytes equal to the payload, each pass makes exactly one
\* allocation in byte_data_block and page_data_block together per distinct
\* payload, and when all such records are page aligned and carry one
\* 4096-byte payload, page_data_block has size 4096.
C3_PayloadStoredOnce ==
  pc = "done" =>
    /\ \A s \in Sites : SiteCell(s).type = "SnapMemoryBytes"
    /\ \A s1, s2 \in StoredSites :
         SiteRecord(s1).byte_values = SiteRecord(s2).byte_values
           => SiteCell(s1).elements = SiteCell(s2).elements
    /\ \A s \in StoredSites :
         /\ IsCell(SiteCell(s).elements, "bytes")
         /\ Cell(SiteCell(s).elements).data = SiteRecord(s).byte_values
    /\ Cardinality(AllocationsIn(alog, DataBlocks))
         = Cardinality({SiteRecord(s).byte_values : s \in StoredSites})
    /\ Cardinality(AllocationsIn(layout_alog, DataBlocks))
         = Cardinality({SiteRecord(s).byte_values : s \in StoredSites})
    /\ ( /\ StoredSites # {}
         /\ \A s \in StoredSites : PageAlignedRecord(SiteRecord(s))
         /\ \A s \in StoredSites : NumBytes(SiteRecord(s).byte_values) = kPageSize
         /\ Cardinality({SiteRecord(s).byte_values : s \in StoredSites}) = 1 )
       => block_sizes["page_data_block"] = kPageSize

C3_Witness ==
  /\ pc = "done"
  /\ block_sizes["page_data_block"] = kPageSize
  /\ block_sizes["byte_data_block"] = 0
  /\ \E s1, s2 \in StoredSites :
       /\ s1[1] # s2[1]
       /\ SiteRecord(s1).start_address # SiteRecord(s2).start_address
       /\ PageAlignedRecord(SiteRecord(s1))
       /\ PageAlignedRecord(SiteRecord(s2))
       /\ SiteRecord(s1).byte_values = SiteRecord(s2).byte_values
       /\ SiteCell(s1).elements = SiteCell(s2).elements

\* The uses of register sets in the input with the pointers emitted for them:
\* <<kind, serialized bytes, pointer>>.
RegUses ==
  UNION { { <<"GRegSet", snapshots[i].registers.gregs,
              Cell(SnapAddr(i)).registers_gregs>>,
            <<"FPRegSet", snapshots[i].registers.fpregs,
              Cell(SnapAddr(i)).registers_fpregs>>,
            <<"GRegSet", EndStateOf(snapshots[i]).registers.gregs,
              Cell(SnapAddr(i)).end_state_registers_gregs>>,
            <<"FPRegSet", EndStateOf(snapshots[i]).registers.fpregs,
              Cell(SnapAddr(i)).end_state_registers_fpregs>> } :
          i \in 1..Len(snapshots) }

\* C4: register states with equal serialized bytes of one kind reference one
\* structure allocated once in the block of that kind, and the storage of a
\* GRegSet never overlaps the storage of an FPRegSet.
C4_RegistersStoredOncePerKind ==
  pc = "done" =>
    /\ \A i \in 1..Len(snapshots) : IsCell(SnapAddr(i), "Snap")
    /\ \A u, v \in RegUses : u[1] = v[1] /\ u[2] = v[2] => u[3] = v[3]
    /\ \A u \in RegUses :
         /\ IsCell(u[3], u[1])
         /\ InBlock(RegisterBlock(u[1]), u[3], SizeofRegs(u[1]))
    /\ \A kind \in {"GRegSet", "FPRegSet"} :
         /\ Cardinality(AllocationsIn(alog, {RegisterBlock(kind)}))
              = Cardinality({u[2] : u \in {x \in RegUses : x[1] = kind}})
         /\ Cardinality(AllocationsIn(layout_alog, {RegisterBlock(kind)}))
              = Cardinality({u[2] : u \in {x \in RegUses : x[1] = kind}})
    /\ \A u, v \in RegUses :
         u[1] = "GRegSet" /\ v[1] = "FPRegSet"
           => u[3] + SizeofGRegSet <= v[3] \/ v[3] + SizeofFPRegSet <= u[3]

C4_Witness ==
  /\ pc = "done"
  /\ Len(snapshots) = 2
  /\ snapshots[1].registers.gregs
       = EndStateOf(snapshots[2]).registers.gregs
  /\ Cell(SnapAddr(1)).registers_gregs
       = Cell(SnapAddr(2)).end_state_registers_gregs
  /\ \E u, v \in RegUses :
       u[1] = "GRegSet" /\ v[1] = "FPRegSet" /\ u[2] = v[2] /\ u[3] # v[3]

\* C5: every record emitted with a backing array whose start address and
\* length are multiples of the page size has its elements pointer inside
\* page_data_block, at a multiple of the page size.
C5_PageAlignedInPageBlock ==
  pc = "done" =>
    \A s \in StoredSites :
      PageAlignedRecord(SiteRecord(s))
        => /\ InBlock("page_data_block", SiteCell(s).elements,
                      NumBytes(SiteRecord(s).byte_values))
           /\ IsPageAligned(SiteCell(s).elements)

\* C6: under compress_repeating_bytes a record of equal bytes is emitted with
\* the kRepeating flag, that byte as value and its length as size, and has no
\* backing array; without the option the record has a backing array in
\* page_data_block when it is page aligned and in byte_data_block otherwise;
\* when every record is compressed both data blocks are empty.
C6_RepeatingRecords ==
  pc = "done" =>
    /\ \A s \in Sites :
         IsRepeatingByteRun(SiteRecord(s).byte_values)
           => IF options.compress_repeating_bytes
                THEN /\ SiteCell(s).type = "SnapMemoryBytes"
                     /\ SiteCell(s).flags = kRepeating
                     /\ SiteCell(s).value = ByteAt(SiteRecord(s).byte_values, 0)
                     /\ SiteCell(s).size = NumBytes(SiteRecord(s).byte_values)
                ELSE /\ Stored(s)
                     /\ InBlock(IF PageAlignedRecord(SiteRecord(s))
                                  THEN "page_data_block"
                                  ELSE "byte_data_block",
                                SiteCell(s).elements,
                                NumBytes(SiteRecord(s).byte_values))
    /\ ( /\ options.compress_repeating_bytes
         /\ \A s \in Sites : IsRepeatingByteRun(SiteRecord(s).byte_values) )
       => /\ block_sizes["byte_data_block"] = 0
          /\ block_sizes["page_data_block"] = 0

\* The EMIT pass has stored the checksum.
ChecksumStored ==
  pass = "kGeneration" /\ pc \in {"process_return", "return", "done"}

\* C7: the checksum is the last write of the EMIT pass: when it was taken
\* the checksum slot was zero and every other byte had its final value, the
\* write of the checksum slot is the last write and the only one to that
\* slot after the header was constructed, and the hash of the returned buffer
\* with the checksum slot zeroed is the stored checksum.
C7_ChecksumLast ==
  ChecksumStored =>
    /\ image_at_checksum[0].checksum = 0
    /\ image = [image_at_checksum EXCEPT ![0].checksum = image[0].checksum]
    /\ wlog[Len(wlog)].type = "checksum"
    /\ \A k \in 1..(Len(wlog) - 1) : wlog[k].type # "checksum"
    /\ \A k \in 1..(Len(wlog) - 1) :
         /\ 0 <= wlog[k].at
         /\ wlog[k].at + wlog[k].len <= buffer.size
    /\ image[0].checksum
         = CorpusChecksum([image EXCEPT ![0].checksum = 0], 0, buffer.size)

C7_Witness ==
  /\ pc = "done"
  /\ Len(snapshots) = 2
  /\ Cardinality(DOMAIN image) > 10
  /\ image[0].checksum
       = CorpusChecksum([image EXCEPT ![0].checksum = 0], 0, buffer.size)
  /\ image_at_checksum[0].checksum = 0
  /\ wlog[Len(wlog)].type = "checksum"

\* C8: header.num_bytes is the size of the main block at the end of the EMIT
\* pass, which is the size the LAYOUT pass computed and the size of the
\* buffer; header.architecture_id is the architecture of the generator, which
\* is the architecture of every snapshot.
C8_HeaderNumBytes ==
  Emitted =>
    /\ image[0].type = "SnapCorpus"
    /\ image[0].num_bytes = block_sizes["main_block"]
    /\ image[0].num_bytes = layout_sizes["main_block"]
    /\ image[0].num_bytes = buffer.size
    /\ image[0].architecture_id = ArchId
    /\ \A i \in 1..Len(snapshots) :
         snapshots[i].architecture_id = image[0].architecture_id

C8_Witness ==
  /\ pc = "done"
  /\ Len(snapshots) = 2
  /\ image[0].num_bytes = buffer.size
  /\ image[0].num_bytes > kPageSize

\* C9: a second run of the generator on the same snapshots and options
\* produces the same image as the first, checksum included, whatever buffer
\* address each run was given.
C9_Deterministic ==
  run = 2 /\ pc = "done" => image = prev_run.image

C9_Witness ==
  /\ run = 2
  /\ pc = "done"
  /\ Len(snapshots) = 2
  /\ buffer.addr # prev_run.addr
  /\ image = prev_run.image
  /\ image[0].checksum = prev_run.image[0].checksum

\* mprotect bits back to permissions.
FromMProtect(bits) ==
  (IF bits % 2 = 1 THEN {"r"} ELSE {})
    \cup (IF (bits \div 2) % 2 = 1 THEN {"w"} ELSE {})
    \cup (IF (bits \div 4) % 2 = 1 THEN {"x"} ELSE {})

\* The bytes a SnapMemoryBytes record of the image stands for.
Expand(cell) ==
  IF cell.flags = kRepeating THEN <<[v |-> cell.value, n |-> cell.size]>>
  ELSE IF IsCell(cell.elements, "bytes")
         /\ Cell(cell.elements).len = cell.size
    THEN Cell(cell.elements).data
  ELSE << >>

\* The register structure expected for serialized register bytes.
ExpectedRegs(kind, src) ==
  [len |-> SizeofRegs(kind)]
    @@ (IF src = EmptyBytes THEN ZeroRegs(kind) ELSE DeserializeRegs(kind, src))

\* C10: the image of a single snapshot with one end state, read back through
\* its pointers, gives the id followed by NUL, the mappings in input order,
\* the start address and bytes of every memory-bytes record (a repeating
\* record standing for size copies of value), and the deserialized register
\* structures (zero-filled for empty end-state registers).
C10_RoundTrip ==
  ( /\ pc = "done"
    /\ Len(snapshots) = 1
    /\ Len(snapshots[1].expected_end_states) = 1 ) =>
    /\ IsCell(0, "SnapCorpus")
    /\ Cell(0).snaps_size = 1
    /\ IsCell(SnapAddr(1), "Snap")
    /\ IsCell(Cell(SnapAddr(1)).id, "string")
    /\ Cell(Cell(SnapAddr(1)).id).data = snapshots[1].id \o <<0>>
    /\ Cell(SnapAddr(1)).memory_mappings_size
         = Len(snapshots[1].memory_mappings)
    /\ \A j \in 1..Len(snapshots[1].memory_mappings) :
         /\ IsCell(MappingAddr(1, j), "SnapMemoryMapping")
         /\ Cell(MappingAddr(1, j)).start_address
              = snapshots[1].memory_mappings[j].start_address
         /\ Cell(MappingAddr(1, j)).num_bytes
              = snapshots[1].memory_mappings[j].num_bytes
         /\ FromMProtect(Cell(MappingAddr(1, j)).perms)
              = snapshots[1].memory_mappings[j].perms
         /\ Cell(MappingAddr(1, j)).memory_bytes_size = Len(SiteList(1, j))
    /\ Cell(SnapAddr(1)).end_state_memory_bytes_size = Len(SiteList(1, 0))
    /\ Cell(SnapAddr(1)).end_state_instruction_address
         = snapshots[1].expected_end_states[1].endpoint
    /\ \A s \in Sites :
         /\ SiteCell(s).type = "SnapMemoryBytes"
         /\ SiteCell(s).start_address = SiteRecord(s).start_address
         /\ SameBytes(Expand(SiteCell(s)), SiteRecord(s).byte_values)
    /\ \A u \in RegUses : Cell(u[3]) = ExpectedRegs(u[1], u[2])

C10_Witness ==
  /\ pc = "done"
  /\ Len(snapshots) = 1
  /\ Len(snapshots[1].expected_end_states) = 1
  /\ \E s \in Sites : s[3] = 2 /\ Stored(s)
  /\ \E s \in Sites : s[2] = 0
  /\ Cell(Cell(SnapAddr(1)).id).data = snapshots[1].id \o <<0>>

\* ----------------------------------------------------------- input errors
EmptyStartRegisters(s) ==
  s.registers.gregs = EmptyBytes \/ s.registers.fpregs = EmptyBytes

\* A snapshot the generator is specified to accept.
WellFormedSnapshot(s) ==
  /\ s.architecture_id = ArchId
  /\ Len(s.expected_end_states) = 1
  /\ ~EmptyStartRegisters(s)
  /\ DeserializeRegisterChecksumOk(s.expected_end_states[1].register_checksum)

\* C11: when some snapshot has empty start-state GPR or FPR bytes the
\* generator aborts and returns no buffer, whatever was processed before.
C11_EmptyStartRegistersAbort ==
  (\E i \in 1..Len(snapshots) : EmptyStartRegisters(snapshots[i]))
    => pc # "done"

\* C12: an end state with empty GPR and FPR bytes is accepted: a list of
\* well-formed snapshots never aborts, and in the returned image such an end
\* state references a GRegSet in gregs_block and an FPRegSet in fpregs_block
\* that are all zero, with the register-memory checksum of zeroed structures.
C12_EmptyEndStateAccepted ==
  /\ (\A i \in 1..Len(snapshots) : WellFormedSnapshot(snapshots[i]))
       => err = "ok"
  /\ pc = "done" =>
       \A i \in 1..Len(snapshots) :
         ( /\ EndStateOf(snapshots[i]).registers.gregs = EmptyBytes
           /\ EndStateOf(snapshots[i]).registers.fpregs = EmptyBytes )
         => /\ IsCell(SnapAddr(i), "Snap")
            /\ Cell(Cell(SnapAddr(i)).end_state_registers_gregs)
                 = [len |-> SizeofGRegSet, type |-> "GRegSet", regs |-> 0]
            /\ Cell(Cell(SnapAddr(i)).end_state_registers_fpregs)
                 = [len |-> SizeofFPRegSet, type |-> "FPRegSet", regs |-> 0]
            /\ InBlock("gregs_block",
                       Cell(SnapAddr(i)).end_state_registers_gregs,
                       SizeofGRegSet)
            /\ InBlock("fpregs_block",
                       Cell(SnapAddr(i)).end_state_registers_fpregs,
                       SizeofFPRegSet)
            /\ Cell(SnapAddr(i)).end_state_registers_memory_checksum
                 = RegisterMemoryChecksum(0, 0)

C12_Witness ==
  /\ pc = "done"
  /\ \A i \in 1..Len(snapshots) : WellFormedSnapshot(snapshots[i])
  /\ \E i \in 1..Len(snapshots) :
       /\ snapshots[i].expected_end_states[1].registers
            = RegisterState(EmptyBytes, EmptyBytes)
       /\ Cell(SnapAddr(i)).end_state_registers_memory_checksum
            = RegisterMemoryChecksum(0, 0)
       /\ Cell(SnapAddr(i)).registers_memory_checksum
            # RegisterMemoryChecksum(0, 0)

\* C13: when some snapshot has a number of expected end states other than 1
\* the generator aborts and returns no buffer.
C13_EndStateCountAbort ==
  (\E i \in 1..Len(snapshots) : Len(snapshots[i].expected_end_states) # 1)
    => pc # "done"

\* C14: a snapshot of another architecture aborts the generator while it is
\* walked in the LAYOUT pass: the walk never gets past it, no buffer is
\* allocated and nothing is written; the abort at that snapshot is the
\* architecture assertion.
C14_ArchitectureAbortInLayout ==
  \A i \in 1..Len(snapshots) :
    snapshots[i].architecture_id # ArchId
      => /\ pass = "kLayout"
         /\ pc \in {"process_begin", "process_snapshots", "aborted"}
         /\ idx <= i + 1
         /\ (idx = i + 1 => pc = "aborted" /\ err = "check_architecture_id")
         /\ buffer = NoBuffer
         /\ image = EmptyFcn
         /\ wlog = << >>

C14_Witness ==
  /\ pc = "aborted"
  /\ err = "check_architecture_id"
  /\ idx = 3
  /\ snapshots[2].architecture_id # ArchId
  /\ alog # << >>

\* C15: a snapshot whose end-state register checksum does not deserialize
\* aborts the generator: the call never returns, so neither an error value
\* nor the partly written buffer reaches the caller; the abort is in the
\* EMIT pass, at the walk of that snapshot, before its Snap record is written.
C15_MalformedChecksumAbort ==
  /\ (\E i \in 1..Len(snapshots) :
        ~DeserializeRegisterChecksumOk(
           EndStateOf(snapshots[i]).register_checksum))
       => pc \notin {"return", "done"}
  /\ err = "check_ok_register_checksum"
       => /\ pc = "aborted"
          /\ pass = "kGeneration"
          /\ ~DeserializeRegisterChecksumOk(
                EndStateOf(snapshots[idx - 1]).register_checksum)
          /\ \A k \in 1..Len(wlog) :
               wlog[k].type = "Snap"
                 => wlog[k].byte_offset
                      < refs.snaps_ref.byte_offset + (idx - 2) * SizeofSnap

C15_Witness ==
  /\ pc = "aborted"
  /\ err = "check_ok_register_checksum"
  /\ idx = 3
  /\ image # EmptyFcn
  /\ buffer # NoBuffer

\* C16: the alignment a block requires is one of 1 (strings), 8 (records and
\* unaligned byte data), the natural alignment of a register structure, or
\* the page size; hence the main block never requires more than a page after
\* the LAYOUT pass and the assertion on it before the buffer is allocated
\* never fires.
Alignments == {1, AlignofRecord, SizeofUint64, AlignofRegs("GRegSet"),
               AlignofRegs("FPRegSet"), kPageSize}

C16_AlignmentWithinPage ==
  /\ \A b \in BlockNames :
       /\ blocks[b].required_alignment \in Alignments
       /\ blocks[b].required_alignment <= kPageSize
  /\ err # "check_required_alignment"
  /\ pc = "allocate_buffer"
       => blocks["main_block"].required_alignment <= kPageSize

C16_Witness ==
  /\ pc = "prepare"
  /\ buffer # NoBuffer
  /\ blocks["main_block"].required_alignment = kPageSize
  /\ blocks["page_data_block"].size > 0
  /\ blocks["fpregs_block"].required_alignment = AlignofFPRegSet

\* C17: for the empty snapshot list the generator succeeds and the image
\* is the SnapCorpus record alone: the buffer, the main block and snap_block
\* all have the size of SnapCorpus, the seven other sub-blocks are empty,
\* and the header's Snap array has size 0.
C17_EmptyListImage ==
  Len(snapshots) = 0 =>
    /\ err = "ok"
    /\ pc # "aborted"
    /\ Emitted =>
         /\ DOMAIN image = {0}
         /\ IsCell(0, "SnapCorpus")
         /\ Cell(0).len = SizeofSnapCorpus
         /\ IsCell(0, "SnapCorpus") => Cell(0).snaps_size = 0
         /\ buffer.size = SizeofSnapCorpus
         /\ block_sizes =
              [b \in BlockNames |->
                 IF b \in {"main_block", "snap_block"} THEN SizeofSnapCorpus
                 ELSE 0]

C17_Witness ==
  /\ Len(snapshots) = 0
  /\ pc = "done"
  /\ pass = "kGeneration"
  /\ IsCell(0, "SnapCorpus")
  /\ block_sizes["main_block"] = SizeofSnapCorpus

\* C18: when the caller supplies a counters map, after the call it has
\* exactly the nine keys main_block, snap_block, memory_bytes_block,
\* memory_mapping_block, byte_data_block, string_block, fpregs_block,
\* gregs_block and page_data_block, each with the size of that block at the
\* end of the EMIT pass, and main_block is at least the sum of the other
\* eight; when no map is supplied nothing is written through it.
CounterKeys ==
  {"main_block", "snap_block", "memory_bytes_block", "memory_mapping_block",
   "byte_data_block", "string_block", "fpregs_block", "gregs_block",
   "page_data_block"}

SumOfSubBlocks(m) ==
  m["snap_block"] + m["memory_bytes_block"] + m["memory_mapping_block"]
    + m["byte_data_block"] + m["string_block"] + m["fpregs_block"]
    + m["gregs_block"] + m["page_data_block"]

C18_Counters ==
  /\ pc # "done" => counters = NoCounters
  /\ pc = "done" =>
       IF counters.supplied
         THEN /\ DOMAIN counters.map = CounterKeys
              /\ \A b \in CounterKeys \cap DOMAIN counters.map :
                   counters.map[b] = blocks[b].size
              /\ DOMAIN counters.map = CounterKeys
                   => counters.map["main_block"]
                        >= SumOfSubBlocks(counters.map)
              /\ pass = "kGeneration"
         ELSE counters = NoCounters

C18_Witness ==
  /\ pc = "done"
  /\ counters.supplied
  /\ Len(snapshots) = 2
  /\ DOMAIN counters.map = CounterKeys
  /\ counters.map["page_data_block"] > 0
  /\ counters.map["main_block"] > SumOfSubBlocks(counters.map)

\* C19: each of the three merges (end of LAYOUT, PrepareSnapGeneration, end
\* of EMIT) places the sub-blocks in the main block in the order snap_block,
\* memory_bytes_block, memory_mapping_block, byte_data_block, string_block,
\* fpregs_block, gregs_block, page_data_block, so that their base offsets do
\* not decrease in that order; snap_block is at offset 0 and the SnapCorpus
\* header is its first allocation, so the header is at offset 0 of the image.
MergeOrder ==
  <<"snap_block", "memory_bytes_block", "memory_mapping_block",
    "byte_data_block", "string_block", "fpregs_block", "gregs_block",
    "page_data_block">>

MainAllocations(log) ==
  SelectSeq(log, LAMBDA e : e.block = "main_block")

\* The main-block allocations m are one merge of blocks of the given sizes.
MergedInOrder(m, sizes) ==
  Len(m) # 0 =>
    /\ Len(m) = Len(MergeOrder)
    /\ m[1].byte_offset = 0
    /\ \A k \in 1..Len(m) :
         k <= Len(MergeOrder) => m[k].size = sizes[MergeOrder[k]]
    /\ \A k \in 1..(Len(m) - 1) :
         m[k].byte_offset + m[k].size <= m[k + 1].byte_offset

C19_MergeOrder ==
  /\ MergedInOrder(MainAllocations(alog), BlockSizes(Trav))
  /\ MergedInOrder(MainAllocations(layout_alog), layout_sizes)
  /\ pass = "kLayout" /\ pc \in {"process_return", "allocate_buffer", "prepare"}
       => Len(MainAllocations(alog)) = Len(MergeOrder)
  /\ pass = "kGeneration" =>
       /\ Len(MainAllocations(layout_alog)) = Len(MergeOrder)
       /\ blocks["snap_block"].load_address = kNominalLoadAddress
       /\ \A k \in 1..Len(MergeOrder) :
            /\ blocks[MergeOrder[k]].load_address
                 = MainAllocations(layout_alog)[k].byte_offset
            /\ blocks[MergeOrder[k]].contents
                 = buffer.addr + blocks[MergeOrder[k]].load_address
            /\ k < Len(MergeOrder)
                 => blocks[MergeOrder[k]].load_address
                      <= blocks[MergeOrder[k + 1]].load_address
       /\ pc \in {"write_corpus", "write_elements", "write_checksum",
                  "process_return", "return", "done"}
            => /\ Len(MainAllocations(alog)) = Len(MergeOrder)
               /\ \A k \in 1..Len(MergeOrder) :
                    MainAllocations(alog)[k].byte_offset
                      = blocks[MergeOrder[k]].load_address
  /\ alog # << >>
       => alog[1] = [block |-> "snap_block", byte_offset |-> 0,
                     size |-> SizeofSnapCorpus]
  /\ pc # "process_begin" /\ err = "ok"
       => refs.corpus_ref = [block |-> "snap_block", byte_offset |-> 0]
  /\ Emitted => IsCell(0, "SnapCorpus")
  /\ \A k \in 1..Len(wlog) :
       wlog[k].type = "SnapCorpus"
         => wlog[k].block = "snap_block" /\ wlog[k].byte_offset = 0
              /\ wlog[k].at = 0

C19_Witness ==
  /\ pc = "done"
  /\ Len(snapshots) = 2
  /\ IsCell(0, "SnapCorpus")
  /\ \A k \in 1..(Len(MergeOrder) - 1) :
       blocks[MergeOrder[k]].load_address
         < blocks[MergeOrder[k + 1]].load_address
  /\ blocks["fpregs_block"].size # blocks["gregs_block"].size

\* C20: pointer-bearing data is kept apart from pointer-free data: every
\* record written during the EMIT pass that holds a pointer (a load address)
\* is written into snap_block or memory_bytes_block, never into
\* memory_mapping_block, byte_data_block, string_block, fpregs_block,
\* gregs_block or page_data_block.
C20_PointersOnlyInPointerBlocks ==
  \A k \in 1..Len(wlog) :
    PointersOf(Cell(wlog[k].at)) # {}
      => wlog[k].block \in {"snap_block", "memory_bytes_block"}

\* C21: the memory checksum written for a mapping is the hash of the
\* concatenation, in declared order, of the bytes of every memory-bytes record
\* assigned to that mapping; it is the same whether a record is emitted as a
\* repeating-byte record or with a backing array, and whether its payload was
\* allocated or found in the dedup table, so it is also the hash of the bytes
\* the emitted records of the mapping stand for.
RECURSIVE InputBytes(_, _, _)
InputBytes(i, j, k) ==
  IF k = 0 THEN << >>
  ELSE ConcatBytes(InputBytes(i, j, k - 1), SiteList(i, j)[k].byte_values)

RECURSIVE EmittedBytes(_, _, _)
EmittedBytes(i, j, k) ==
  IF k = 0 THEN << >>
  ELSE ConcatBytes(EmittedBytes(i, j, k - 1),
                   IF SiteCell(<<i, j, k>>).type = "SnapMemoryBytes"
                     THEN Expand(SiteCell(<<i, j, k>>)) ELSE << >>)

C21_MappingChecksum ==
  pc = "done" =>
    \A i \in 1..Len(snapshots) :
      \A j \in 1..Len(snapshots[i].memory_mappings) :
        /\ IsCell(MappingAddr(i, j), "SnapMemoryMapping")
        /\ IsCell(MappingAddr(i, j), "SnapMemoryMapping") =>
             /\ Cell(MappingAddr(i, j)).memory_checksum
                  = MemoryChecksum(InputBytes(i, j, Len(SiteList(i, j))))
             /\ Cell(MappingAddr(i, j)).memory_checksum
                  = MemoryChecksum(EmittedBytes(i, j, Len(SiteList(i, j))))

\* The second of two snapshots has a mapping with a repeating-byte record and
\* a record whose payload is a dedup hit on the first snapshot's.
C21_Witness ==
  /\ pc = "done"
  /\ Len(snapshots) = 2
  /\ \E j \in 1..Len(snapshots[2].memory_mappings) :
       /\ \E k \in 1..Len(SiteList(2, j)) :
            /\ SiteCell(<<2, j, k>>).type = "SnapMemoryBytes"
            /\ SiteCell(<<2, j, k>>).flags = kRepeating
       /\ \E k \in 1..Len(SiteList(2, j)) :
            /\ Stored(<<2, j, k>>)
            /\ \E s \in StoredSites :
                 s[1] = 1 /\ SiteCell(s).elements
                               = SiteCell(<<2, j, k>>).elements
       /\ Cell(MappingAddr(2, j)).memory_checksum
            = MemoryChecksum(InputBytes(2, j, Len(SiteList(2, j))))

\* C22: the image is generated for nominal load address 0: after
\* PrepareSnapGeneration the load address of every sub-block is its byte
\* offset inside the main block (the offset of its contents from the buffer
\* start), every store through a Ref lands at the buffer offset that is the
\* Ref's load address, and every pointer stored in the image is the offset of
\* its owning sub-block in the main block plus the offset of the target
\* inside that sub-block, i.e. the target's byte offset from the image start.
\* The pointers of a record with the sub-block that owns each target.
PointerFields(cell) ==
  IF cell.type = "SnapCorpus" THEN {<<cell.snaps_elements, "snap_block">>}
  ELSE IF cell.type = "SnapPtr" THEN {<<cell.ptr, "snap_block">>}
  ELSE IF cell.type = "Snap"
    THEN {<<cell.id, "string_block">>,
          <<cell.memory_mappings_elements, "memory_mapping_block">>,
          <<cell.registers_fpregs, "fpregs_block">>,
          <<cell.registers_gregs, "gregs_block">>,
          <<cell.end_state_registers_fpregs, "fpregs_block">>,
          <<cell.end_state_registers_gregs, "gregs_block">>,
          <<cell.end_state_memory_bytes_elements, "memory_bytes_block">>}
  ELSE IF cell.type = "SnapMemoryMapping"
    THEN {<<cell.memory_bytes_elements, "memory_bytes_block">>}
  ELSE IF cell.type = "SnapMemoryBytes" /\ cell.flags # kRepeating
    THEN {<<cell.elements, "byte_data_block">>,
          <<cell.elements, "page_data_block">>}
  ELSE {}

\* Value q is the image offset of a place inside an allocation of block b
\* made in the current pass.
TargetsAllocation(q, b) ==
  \E k \in 1..Len(alog) :
    /\ alog[k].block = b
    /\ blocks[b].load_address + alog[k].byte_offset <= q
    /\ q <= blocks[b].load_address + alog[k].byte_offset + alog[k].size

C22_NominalLoadAddress ==
  pass = "kGeneration" =>
    /\ blocks["main_block"].load_address = 0
    /\ blocks["main_block"].contents = buffer.addr
    /\ \A k \in 1..Len(MergeOrder) :
         /\ blocks[MergeOrder[k]].load_address
              = blocks[MergeOrder[k]].contents - buffer.addr
         /\ blocks[MergeOrder[k]].load_address
              = MainAllocations(layout_alog)[k].byte_offset
    /\ \A k \in 1..Len(wlog) :
         wlog[k].at = blocks[wlog[k].block].load_address + wlog[k].byte_offset
    /\ \A o \in DOMAIN image :
         \A q \in PointersOf(image[o]) :
           \E f \in PointerFields(image[o]) :
             f[1] = q /\ TargetsAllocation(q, f[2])

C22_Witness ==
  /\ pc = "done"
  /\ Len(snapshots) = 2
  /\ buffer.addr # 0
  /\ blocks["page_data_block"].load_address > 0
  /\ \E o \in DOMAIN image :
       /\ image[o].type = "SnapMemoryBytes"
       /\ image[o].flags # kRepeating
       /\ image[o].elements = blocks["page_data_block"].load_address
       /\ IsCell(image[o].elements, "bytes")
  /\ \E o \in DOMAIN image :
       /\ image[o].type = "SnapPtr"
       /\ image[o].ptr > blocks["snap_block"].load_address + SizeofSnapCorpus
       /\ IsCell(image[o].ptr, "Snap")

\* C23: the generator runs the LAYOUT pass, then allocates the buffer, then
\* PrepareSnapGeneration, then the EMIT pass; during the LAYOUT pass no byte
\* of a content buffer is written and no contents or load address of a block
\* is set or used (no store through a null contents pointer, none of the
\* assertions of the generation pass): only sizes, alignments, dedup tables
\* and the allocation log change.
GenerationOnlyErrors ==
  {"null_contents", "dcheck_memcmp", "check_allow_empty_register_state",
   "check_ok_register_checksum"}

C23_LayoutState ==
  /\ pass = "kLayout" =>
       /\ image = EmptyFcn
       /\ wlog = << >>
       /\ \A b \in BlockNames :
            blocks[b].contents = 0 /\ blocks[b].load_address = 0
       /\ err \notin GenerationOnlyErrors
       /\ pc \notin {"write_corpus", "write_elements", "write_checksum",
                      "return", "done"}
       /\ pc # "prepare" => buffer = NoBuffer
       /\ pc = "prepare" => buffer # NoBuffer /\ layout_sizes = BlockSizes(Trav)
  /\ pass = "kGeneration" =>
       /\ buffer # NoBuffer
       /\ buffer.size = layout_sizes["main_block"]
       /\ blocks["main_block"].contents = buffer.addr
       /\ pc \notin {"allocate_buffer", "prepare"}

C23_LayoutStep ==
  /\ pass' # pass =>
       /\ pass = "kLayout" /\ pass' = "kGeneration"
       /\ pc = "prepare" /\ pc' = "process_begin"
       /\ buffer' = buffer
  /\ buffer' # buffer =>
       /\ pass = "kLayout" /\ pass' = "kLayout"
       /\ pc = "allocate_buffer" /\ pc' = "prepare"
       /\ buffer = NoBuffer
       /\ blocks' = blocks
  /\ (pass = "kLayout" /\ pc # "prepare") =>
       /\ image' = image
       /\ wlog' = wlog
       /\ \A b \in BlockNames :
            /\ blocks'[b].contents = blocks[b].contents
            /\ blocks'[b].load_address = blocks[b].load_address

C23_PassOrder == [](C23_LayoutState) /\ [][C23_LayoutStep]_vars

C23_Witness ==
  /\ pass = "kLayout"
  /\ pc = "prepare"
  /\ buffer # NoBuffer
  /\ image = EmptyFcn
  /\ Len(snapshots) = 2
  /\ ref_maps.bytes # EmptyFcn
  /\ ref_maps.gregs # EmptyFcn
  /\ blocks["memory_mapping_block"].size > 0
  /\ blocks["page_data_block"].required_alignment = kPageSize

\* C24: PrepareSnapGeneration empties the three dedup tables, so in the EMIT
\* pass the first occurrence of a payload or of serialized registers is a
\* miss that writes its region and every later occurrence is a hit that
\* returns the same Ref without writing: every payload region and register
\* structure allocated in EMIT is written exactly once, and every pointer to
\* such a region is emitted after the region was written in EMIT.
DedupedBlocks ==
  {"byte_data_block", "page_data_block", "gregs_block", "fpregs_block"}

\* The stores of the write log into place <<block, byte_offset>>.
WritesTo(b, off) ==
  {k \in 1..Len(wlog) : wlog[k].block = b /\ wlog[k].byte_offset = off}

\* Image offset q was written by a store of the given type before store k.
WrittenBefore(q, type, k) ==
  \E h \in 1..(k - 1) :
    wlog[h].at = q /\ wlog[h].type = type /\ wlog[h].block \in DedupedBlocks

C24_WrittenOnceBeforeUse ==
  /\ (pass = "kGeneration" /\ pc = "process_begin") => ref_maps = NewMaps
  /\ \A k \in 1..Len(wlog) :
       wlog[k].block \in DedupedBlocks
         => WritesTo(wlog[k].block, wlog[k].byte_offset) = {k}
  /\ (pass = "kGeneration" /\ err = "ok") =>
       \A k \in 1..Len(alog) :
         alog[k].block \in DedupedBlocks
           => Cardinality(WritesTo(alog[k].block, alog[k].byte_offset)) = 1
  /\ \A k \in 1..Len(wlog) :
       /\ (wlog[k].type = "SnapMemoryBytes" /\ IsCell(wlog[k].at, "SnapMemoryBytes"))
            => (Cell(wlog[k].at).flags # kRepeating
                  => WrittenBefore(Cell(wlog[k].at).elements, "bytes", k))
       /\ (wlog[k].type = "Snap" /\ IsCell(wlog[k].at, "Snap"))
            => /\ WrittenBefore(Cell(wlog[k].at).registers_gregs, "GRegSet", k)
               /\ WrittenBefore(Cell(wlog[k].at).registers_fpregs,
                                "FPRegSet", k)
               /\ WrittenBefore(Cell(wlog[k].at).end_state_registers_gregs,
                                "GRegSet", k)
               /\ WrittenBefore(Cell(wlog[k].at).end_state_registers_fpregs,
                                "FPRegSet", k)

\* Two records and two register states of the image share a region that
\* was written once.
C24_Witness ==
  /\ pc = "done"
  /\ err = "ok"
  /\ \E k1, k2 \in 1..Len(wlog) :
       /\ k1 < k2
       /\ wlog[k1].type = "SnapMemoryBytes" /\ wlog[k2].type = "SnapMemoryBytes"
       /\ Cell(wlog[k1].at).flags # kRepeating
       /\ Cell(wlog[k2].at).flags # kRepeating
       /\ Cell(wlog[k1].at).elements = Cell(wlog[k2].at).elements
       /\ Cardinality({h \in 1..Len(wlog) :
                         wlog[h].at = Cell(wlog[k1].at).elements}) = 1
  /\ \E k1, k2 \in 1..Len(wlog) :
       /\ k1 < k2
       /\ wlog[k1].type = "Snap" /\ wlog[k2].type = "Snap"
       /\ Cell(wlog[k1].at).registers_gregs = Cell(wlog[k2].at).registers_gregs
       /\ Cardinality({h \in 1..Len(wlog) :
                         wlog[h].at = Cell(wlog[k1].at).registers_gregs}) = 1

\* C25: the dedup table of memory bytes ignores alignment: when records that
\* go through the table carry the same payload, one page aligned and one not,
\* the later record (in walk order) gets the region allocated for the first,
\* in the data block chosen by the first record's alignment, and the payload
\* has no second region in the other data block.
\* Site s1 is walked before site s2: snapshots in input order, per snapshot
\* the mappings in order and then the end state.
WalkedBefore(s1, s2) ==
  \/ s1[1] < s2[1]
  \/ /\ s1[1] = s2[1]
     /\ \/ s1[2] # 0 /\ s2[2] = 0
        \/ s1[2] # 0 /\ s1[2] < s2[2]
        \/ s1[2] = s2[2] /\ s1[3] < s2[3]

DataBlockOf(r) ==
  IF PageAlignedRecord(r) THEN "page_data_block" ELSE "byte_data_block"

C25_DedupIgnoresAlignment ==
  pc = "done" =>
    \A s1, s2 \in StoredSites :
      ( /\ WalkedBefore(s1, s2)
        /\ \A s0 \in StoredSites :
             WalkedBefore(s0, s1)
               => SiteRecord(s0).byte_values # SiteRecord(s1).byte_values
        /\ SiteRecord(s1).byte_values = SiteRecord(s2).byte_values
        /\ PageAlignedRecord(SiteRecord(s1))
             # PageAlignedRecord(SiteRecord(s2)) )
        => /\ SiteCell(s2).elements = SiteCell(s1).elements
           /\ InBlock(DataBlockOf(SiteRecord(s1)), SiteCell(s1).elements,
                      NumBytes(SiteRecord(s1).byte_values))
           /\ Cardinality({o \in DOMAIN image :
                             /\ image[o].type = "bytes"
                             /\ image[o].data = SiteRecord(s1).byte_values})
                = 1
           /\ \A k \in 1..Len(alog) :
                alog[k].block = DataBlockOf(SiteRecord(s2))
                  => IsCell(blocks[alog[k].block].load_address
                              + alog[k].byte_offset, "bytes")
                     /\ Cell(blocks[alog[k].block].load_address
                               + alog[k].byte_offset).data
                          # SiteRecord(s1).byte_values

C25_Witness ==
  /\ pc = "done"
  /\ \E s1, s2 \in StoredSites :
       /\ WalkedBefore(s1, s2)
       /\ SiteRecord(s1).byte_values = SiteRecord(s2).byte_values
       /\ ~PageAlignedRecord(SiteRecord(s1))
       /\ PageAlignedRecord(SiteRecord(s2))
       /\ SiteCell(s2).elements = SiteCell(s1).elements
       /\ blocks["page_data_block"].size = 0
       /\ blocks["byte_data_block"].size = kPageSize

\* C26: inside each deduplicated block (byte_data_block, page_data_block,
\* gregs_block, fpregs_block) the offsets of distinct payloads increase
\* strictly in the order of their first occurrence in the walk (snapshots in
\* input order; per snapshot the memory bytes of the mappings in mapping
\* order, the end-state memory bytes, the start registers, the end-state
\* registers), and within a pass an offset once assigned never changes: the
\* allocation log only grows and a dedup table entry keeps its Ref.
\* Register occurrence n of the walk: 2i - 1 is the start state of snapshot
\* i, 2i its end state.
RegOccurrences == 1..(2 * Len(snapshots))

RegValue(kind, n) ==
  LET i == (n + 1) \div 2
      regs == IF n % 2 = 1 THEN snapshots[i].registers
              ELSE EndStateOf(snapshots[i]).registers
  IN  IF kind = "GRegSet" THEN regs.gregs ELSE regs.fpregs

RegPtr(kind, n) ==
  LET i == (n + 1) \div 2
      snap == Cell(SnapAddr(i))
  IN  IF ~IsCell(SnapAddr(i), "Snap") THEN -1
      ELSE IF n % 2 = 1
        THEN (IF kind = "GRegSet" THEN snap.registers_gregs
              ELSE snap.registers_fpregs)
        ELSE (IF kind = "GRegSet" THEN snap.end_state_registers_gregs
              ELSE snap.end_state_registers_fpregs)

FirstRegOccurrence(kind, n) ==
  \A h \in 1..(n - 1) : RegValue(kind, h) # RegValue(kind, n)

FirstStoredOccurrence(s) ==
  \A s0 \in StoredSites :
    WalkedBefore(s0, s) => SiteRecord(s0).byte_values # SiteRecord(s).byte_values

\* The allocations of the log in the deduplicated blocks do not overlap and
\* follow each other at strictly increasing offsets.
IncreasingOffsets(log) ==
  \A k1, k2 \in 1..Len(log) :
    (k1 < k2 /\ log[k1].block = log[k2].block
       /\ log[k1].block \in DedupedBlocks)
      => /\ log[k1].byte_offset < log[k2].byte_offset
         /\ log[k1].byte_offset + log[k1].size <= log[k2].byte_offset

C26_OffsetsState ==
  /\ IncreasingOffsets(alog)
  /\ IncreasingOffsets(layout_alog)
  /\ pc = "done" =>
       /\ \A s1, s2 \in StoredSites :
            ( /\ FirstStoredOccurrence(s1) /\ FirstStoredOccurrence(s2)
              /\ WalkedBefore(s1, s2)
              /\ \E b \in DataBlocks :
                   /\ InBlock(b, SiteCell(s1).elements, 1)
                   /\ InBlock(b, SiteCell(s2).elements, 1) )
              => SiteCell(s1).elements < SiteCell(s2).elements
       /\ \A kind \in {"GRegSet", "FPRegSet"} :
            \A n1, n2 \in RegOccurrences :
              ( /\ n1 < n2
                /\ FirstRegOccurrence(kind, n1)
                /\ FirstRegOccurrence(kind, n2) )
                => /\ InBlock(RegisterBlock(kind), RegPtr(kind, n1), 1)
                   /\ InBlock(RegisterBlock(kind), RegPtr(kind, n2), 1)
                   /\ RegPtr(kind, n1) < RegPtr(kind, n2)

C26_OffsetsStep ==
  pass' = pass =>
    /\ IsPrefix(alog, alog')
    /\ \A m \in {"bytes", "gregs", "fpregs"} :
         \A key \in DOMAIN ref_maps[m] :
           /\ key \in DOMAIN ref_maps'[m]
           /\ ref_maps'[m][key] = ref_maps[m][key]

C26_FirstOccurrenceOrder == [](C26_OffsetsState) /\ [][C26_OffsetsStep]_vars

C26_Witness ==
  /\ pc = "done"
  /\ Len(snapshots) = 2
  /\ \E s1, s2 \in StoredSites :
       /\ FirstStoredOccurrence(s1) /\ FirstStoredOccurrence(s2)
       /\ s1[1] = 1 /\ s2[1] = 2
       /\ InBlock("page_data_block", SiteCell(s1).elements, 1)
       /\ InBlock("page_data_block", SiteCell(s2).elements, 1)
       /\ SiteCell(s1).elements < SiteCell(s2).elements
  /\ \E n1, n2 \in RegOccurrences :
       /\ n1 < n2
       /\ FirstRegOccurrence("GRegSet", n1)
       /\ FirstRegOccurrence("GRegSet", n2)
       /\ RegPtr("GRegSet", n1) < RegPtr("GRegSet", n2)
  /\ \E n \in RegOccurrences : ~FirstRegOccurrence("GRegSet", n)

\* C27: after the EMIT pass SnapCorpus.snaps.size is the number of input
\* snapshots and, for every i, element i of the Snap pointer array holds the
\* load address of the i-th Snap record: the base of the Snap array plus i
\* times the size of a Snap (i counted from 0), where the record describing
\* the i-th input snapshot (its id, mappings, end point and registers) lies.
SnapArrayBase ==
  SizeofSnapCorpus + RoundUp(SizeofSnapPtr * Len(snapshots), AlignofRecord)

C27_SnapPointerArray ==
  Emitted =>
    /\ IsCell(0, "SnapCorpus")
    /\ IsCell(0, "SnapCorpus") =>
         /\ Cell(0).snaps_size = Len(snapshots)
         /\ Cell(0).snaps_elements = SizeofSnapCorpus
    /\ \A i \in 1..Len(snapshots) :
         /\ IsCell(SizeofSnapCorpus + (i - 1) * SizeofSnapPtr, "SnapPtr")
         /\ SnapAddr(i) = SnapArrayBase + (i - 1) * SizeofSnap
         /\ IsCell(SnapAddr(i), "Snap")
         /\ IsCell(SnapAddr(i), "Snap") =>
              /\ IsCell(Cell(SnapAddr(i)).id, "string")
              /\ Cell(Cell(SnapAddr(i)).id).data = snapshots[i].id \o <<0>>
              /\ Cell(SnapAddr(i)).memory_mappings_size
                   = Len(snapshots[i].memory_mappings)
              /\ \A j \in 1..Len(snapshots[i].memory_mappings) :
                   /\ IsCell(MappingAddr(i, j), "SnapMemoryMapping")
                   /\ Cell(MappingAddr(i, j)).start_address
                        = snapshots[i].memory_mappings[j].start_address
                   /\ Cell(MappingAddr(i, j)).memory_bytes_size
                        = Len(SiteList(i, j))
              /\ Cell(SnapAddr(i)).end_state_instruction_address
                   = EndStateOf(snapshots[i]).endpoint
              /\ Cell(SnapAddr(i)).end_state_memory_bytes_size
                   = Len(SiteList(i, 0))
              /\ \A kind \in {"GRegSet", "FPRegSet"} :
                   \A n \in {2 * i - 1, 2 * i} :
                     Cell(RegPtr(kind, n))
                       = ExpectedRegs(kind, RegValue(kind, n))

C27_Witness ==
  /\ pc = "done"
  /\ Len(snapshots) = 2
  /\ snapshots[1].id # snapshots[2].id
  /\ snapshots[1].registers # snapshots[2].registers
  /\ Cell(0).snaps_size = 2
  /\ SnapAddr(2) = SnapAddr(1) + SizeofSnap
  /\ Cell(Cell(SnapAddr(2)).id).data = snapshots[2].id \o <<0>>

\* C28: an allocation of size bytes with an alignment returns the block's
\* previous size rounded up to a multiple of the alignment, leaves the block
\* with that offset plus size as its size, and makes required_alignment the
\* maximum of its old value and the alignment; merging a sub-block into the
\* main block is an allocation of the sub-block's size with the sub-block's
\* required alignment.
\* The alignment the walk passes for every allocation in a sub-block.
AlignmentIn(b) ==
  IF b = "string_block" THEN 1
  ELSE IF b = "page_data_block" THEN kPageSize
  ELSE IF b = "byte_data_block" THEN SizeofUint64
  ELSE IF b = "gregs_block" THEN AlignofRegs("GRegSet")
  ELSE IF b = "fpregs_block" THEN AlignofRegs("FPRegSet")
  ELSE AlignofRecord

\* The allocations of the log made in block b, in order.
AllocationsOf(log, b) == SelectSeq(log, LAMBDA e : e.block = b)

\* The size of the block of the k-th allocation of l before that allocation,
\* l being the allocations of one block.
SizeBefore(l, k) ==
  IF k = 1 THEN 0 ELSE l[k - 1].byte_offset + l[k - 1].size

\* off is from rounded up to a multiple of alignment.
IsRoundedUp(off, from, alignment) ==
  /\ off % alignment = 0
  /\ from <= off
  /\ off < from + alignment

MergedAlignment(k) == blocks[MergeOrder[k]].required_alignment

C28_Allocate ==
  /\ \A b \in BlockNames \ {"main_block"} :
       \A l \in {AllocationsOf(alog, b)} :
         /\ \A k \in 1..Len(l) :
              IsRoundedUp(l[k].byte_offset, SizeBefore(l, k), AlignmentIn(b))
         /\ blocks[b].size = SizeBefore(l, Len(l) + 1)
         /\ blocks[b].required_alignment
              = IF Len(l) = 0 THEN 1 ELSE AlignmentIn(b)
  /\ \A l \in {AllocationsOf(alog, "main_block")} :
       /\ Len(l) <= Len(MergeOrder)
       /\ \A k \in 1..Len(l) :
            k <= Len(MergeOrder) =>
              /\ l[k].size = blocks[MergeOrder[k]].size
              /\ IsRoundedUp(l[k].byte_offset, SizeBefore(l, k),
                             MergedAlignment(k))
       /\ blocks["main_block"].size = SizeBefore(l, Len(l) + 1)
       /\ Len(l) = 0 => blocks["main_block"].required_alignment = 1
       /\ Len(l) # 0 =>
            /\ \A k \in 1..Len(MergeOrder) :
                 MergedAlignment(k) <= blocks["main_block"].required_alignment
            /\ \/ blocks["main_block"].required_alignment = 1
               \/ \E k \in 1..Len(MergeOrder) :
                    MergedAlignment(k)
                      = blocks["main_block"].required_alignment

\* Padding was inserted by an allocation in a sub-block and by a merge.
C28_Witness ==
  /\ pc = "done"
  /\ \E l \in {AllocationsOf(alog, "byte_data_block")} :
       \E k \in 2..Len(l) : l[k].byte_offset > SizeBefore(l, k)
  /\ \E l \in {AllocationsOf(alog, "main_block")} :
       \E k \in 2..Len(l) :
         l[k].byte_offset > SizeBefore(l, k) /\ l[k].size > 0
  /\ blocks["main_block"].required_alignment = AlignofFPRegSet

\* C29: snapshot ids are never deduplicated. Every snapshot gets its own
\* NUL-terminated copy of its id in string_block, allocated with alignment 1,
\* so after n snapshots are processed the size of string_block is the sum of
\* (id length + 1) over them, also when two snapshots carry the same id.
RECURSIVE IdBytes(_)
IdBytes(n) == IF n = 0 THEN 0 ELSE IdBytes(n - 1) + Len(snapshots[n].id) + 1

IdAllocations == SelectSeq(alog, LAMBDA e : e.block = "string_block")

C29_IdsNotDeduplicated ==
  /\ Len(IdAllocations) <= Len(snapshots)
  /\ pc \notin {"aborted", "process_begin"} => Len(IdAllocations) = idx - 1
  /\ \A k \in 1..Len(IdAllocations) :
       k <= Len(snapshots) =>
         /\ IdAllocations[k].size = Len(snapshots[k].id) + 1
         /\ IdAllocations[k].byte_offset = IdBytes(k - 1)
  /\ Len(IdAllocations) <= Len(snapshots) =>
       blocks["string_block"].size = IdBytes(Len(IdAllocations))
  /\ Emitted =>
       /\ \A i \in 1..Len(snapshots) :
            IsCell(SnapAddr(i), "Snap") =>
              /\ Cell(SnapAddr(i)).id
                   = blocks["string_block"].load_address + IdBytes(i - 1)
              /\ IsCell(Cell(SnapAddr(i)).id, "string")
              /\ Cell(Cell(SnapAddr(i)).id).len = Len(snapshots[i].id) + 1
              /\ Cell(Cell(SnapAddr(i)).id).data = snapshots[i].id \o <<0>>
       /\ \A i, j \in 1..Len(snapshots) :
            (i # j /\ IsCell(SnapAddr(i), "Snap") /\ IsCell(SnapAddr(j), "Snap"))
              => Cell(SnapAddr(i)).id # Cell(SnapAddr(j)).id

\* Two snapshots with the same id were emitted, each with its own copy.
C29_Witness ==
  /\ pc = "done"
  /\ Len(snapshots) = 2
  /\ snapshots[1].id = snapshots[2].id
  /\ snapshots[1] # snapshots[2]
  /\ IsCell(SnapAddr(1), "Snap") /\ IsCell(SnapAddr(2), "Snap")
  /\ Cell(SnapAddr(1)).id # Cell(SnapAddr(2)).id
  /\ blocks["string_block"].size = 4

\* C30: in the generation pass a register-memory checksum is computed from
\* a GRegSet and an FPRegSet that were both written earlier in the same pass,
\* also when their Refs came from dedup hits, so the checksum stored in a Snap
\* is the hash of the two structures as they appear in the image, then and in
\* the final image.
SnapCells == {o \in DOMAIN image : image[o].type = "Snap"}

\* Image offset q was written by a store of the given type before the Snap
\* record at image offset o was.
StoredBefore(q, type, o) ==
  \E h \in 1..Len(wlog) :
    /\ wlog[h].at = q
    /\ wlog[h].type = type
    /\ \E k \in 1..Len(wlog) : wlog[k].at = o /\ wlog[k].type = "Snap" /\ h < k

ChecksumOfImage(fpregs_ptr, gregs_ptr) ==
  RegisterMemoryChecksum(Cell(fpregs_ptr).regs, Cell(gregs_ptr).regs)

C30_ChecksumOfWrittenRegisters ==
  \A o \in SnapCells :
    /\ IsCell(image[o].registers_gregs, "GRegSet")
    /\ IsCell(image[o].registers_fpregs, "FPRegSet")
    /\ IsCell(image[o].end_state_registers_gregs, "GRegSet")
    /\ IsCell(image[o].end_state_registers_fpregs, "FPRegSet")
    /\ StoredBefore(image[o].registers_gregs, "GRegSet", o)
    /\ StoredBefore(image[o].registers_fpregs, "FPRegSet", o)
    /\ StoredBefore(image[o].end_state_registers_gregs, "GRegSet", o)
    /\ StoredBefore(image[o].end_state_registers_fpregs, "FPRegSet", o)
    /\ ( /\ IsCell(image[o].registers_gregs, "GRegSet")
         /\ IsCell(image[o].registers_fpregs, "FPRegSet") )
         => image[o].registers_memory_checksum
              = ChecksumOfImage(image[o].registers_fpregs,
                                image[o].registers_gregs)
    /\ ( /\ IsCell(image[o].end_state_registers_gregs, "GRegSet")
         /\ IsCell(image[o].end_state_registers_fpregs, "FPRegSet") )
         => image[o].end_state_registers_memory_checksum
              = ChecksumOfImage(image[o].end_state_registers_fpregs,
                                image[o].end_state_registers_gregs)

\* The second snapshot's start registers were dedup hits on the first's, and
\* an end state's empty registers were zero-filled.
C30_Witness ==
  /\ pc = "done"
  /\ Len(snapshots) = 2
  /\ IsCell(SnapAddr(1), "Snap") /\ IsCell(SnapAddr(2), "Snap")
  /\ Cell(SnapAddr(1)).registers_gregs = Cell(SnapAddr(2)).registers_gregs
  /\ Cell(SnapAddr(1)).registers_fpregs = Cell(SnapAddr(2)).registers_fpregs
  /\ Cell(SnapAddr(2)).registers_memory_checksum
       = RegisterMemoryChecksum(snapshots[2].registers.fpregs - 1,
                                snapshots[2].registers.gregs - 1)
  /\ snapshots[2].registers.gregs # EmptyBytes
  /\ snapshots[1].expected_end_states # << >>
  /\ snapshots[1].expected_end_states[1].registers.gregs = EmptyBytes
  /\ Cell(SnapAddr(1)).end_state_registers_memory_checksum
       = RegisterMemoryChecksum(0, 0)

\* C31: after PrepareSnapGeneration the regions of the eight sub-blocks inside
\* the main block, from each sub-block's base to its base plus its size of the
\* LAYOUT pass, are pairwise disjoint and lie within the main block as the
\* LAYOUT pass sized it, and each base is a multiple of the required alignment
\* the sub-block had at the end of the LAYOUT pass.
SubBlockNames == BlockNames \ {"main_block"}

\* The base of sub-block b inside the main block.
BaseOf(b) == blocks[b].load_address - blocks["main_block"].load_address

EndOf(b) == BaseOf(b) + layout_sizes[b]

Prepared == pass = "kGeneration" /\ pc # "aborted"

C31_RegionsState ==
  Prepared =>
    /\ \A b \in SubBlockNames :
         /\ 0 <= BaseOf(b)
         /\ EndOf(b) <= buffer.size
         /\ blocks[b].contents = buffer.addr + BaseOf(b)
    /\ \A a, b \in SubBlockNames :
         (a # b /\ layout_sizes[a] > 0 /\ layout_sizes[b] > 0)
           => (EndOf(a) <= BaseOf(b) \/ EndOf(b) <= BaseOf(a))

C31_PrepareStep ==
  pc = "prepare" =>
    /\ buffer.size = blocks["main_block"].size
    /\ \A b \in SubBlockNames :
         /\ layout_sizes[b] = blocks[b].size
         /\ (blocks'[b].load_address - blocks'["main_block"].load_address)
              % blocks[b].required_alignment = 0

C31_SubBlockRegions == [](C31_RegionsState) /\ [][C31_PrepareStep]_vars

\* Prepare has placed a register block behind padding and a page of data
\* behind both.
C31_Witness ==
  /\ pass = "kGeneration"
  /\ pc = "process_begin"
  /\ layout_sizes["string_block"] % AlignofFPRegSet # 0
  /\ BaseOf("fpregs_block") > EndOf("string_block")
  /\ layout_sizes["page_data_block"] > 0
  /\ BaseOf("page_data_block") > EndOf("gregs_block")
  /\ EndOf("page_data_block") = buffer.size

\* C32: every store of the generation pass (payload bytes, register
\* structures, id strings, SnapMemoryBytes, SnapMemoryMapping, Snap and
\* SnapCorpus records, pointer-array elements, the checksum) goes through a Ref
\* of a sub-block and covers bytes that lie inside the region PrepareSnapGeneration
\* gave that sub-block, hence inside the buffer and in no other sub-block's
\* region.
StoreTypes ==
  {"bytes", "GRegSet", "FPRegSet", "string", "SnapMemoryBytes",
   "SnapMemoryMapping", "Snap", "SnapCorpus", "SnapPtr", "checksum"}

InsideOwnRegion(w) ==
  /\ w.block \in SubBlockNames
  /\ w.block \in SubBlockNames =>
       /\ 0 <= w.byte_offset
       /\ w.byte_offset + w.len <= layout_sizes[w.block]
       /\ w.at = BaseOf(w.block) + w.byte_offset
       /\ 0 <= w.at
       /\ w.at + w.len <= buffer.size
       /\ \A b \in SubBlockNames \ {w.block} :
            (w.len > 0 /\ layout_sizes[b] > 0)
              => (w.at + w.len <= BaseOf(b) \/ EndOf(b) <= w.at)

C32_WritesInsideRegions ==
  /\ wlog # << >> => pass = "kGeneration"
  /\ \A k \in 1..Len(wlog) : InsideOwnRegion(wlog[k])

\* Every kind of store has happened, the last id string ending exactly at the
\* end of the string block's region.
C32_Witness ==
  /\ pc = "done"
  /\ {wlog[k].type : k \in 1..Len(wlog)} = StoreTypes
  /\ \E k \in 1..Len(wlog) :
       /\ wlog[k].type = "string"
       /\ wlog[k].byte_offset + wlog[k].len = layout_sizes["string_block"]
  /\ \E k \in 1..Len(wlog) :
       /\ wlog[k].type = "bytes"
       /\ wlog[k].block = "page_data_block"
       /\ wlog[k].at + wlog[k].len = buffer.size

\* C33: record arrays are never deduplicated. After a pass the size of
\* memory_mapping_block is the SnapMemoryMapping size times the number of
\* mappings of all snapshots, the size of memory_bytes_block is the
\* SnapMemoryBytes size times the number of memory-bytes records of all
\* mappings and all end states, and the j-th record of a list is written at
\* the list's Ref plus j times the record size.
RECURSIVE SumSeq(_)
SumSeq(s) == IF s = << >> THEN 0 ELSE Head(s) + SumSeq(Tail(s))

MappingCount(i) == Len(snapshots[i].memory_mappings)

RecordsPerMapping(i) ==
  LET split == SplitBytesByMapping(snapshots[i].memory_mappings,
                                   snapshots[i].memory_bytes)
  IN  SumSeq([j \in 1..Len(split) |-> Len(split[j])])

RecordsOfAllEndStates(i) ==
  SumSeq([e \in 1..Len(snapshots[i].expected_end_states) |->
            Len(snapshots[i].expected_end_states[e].memory_bytes)])

RecordsOfFirstEndState(i) == Len(EndStateOf(snapshots[i]).memory_bytes)

MappingsTotal == SumSeq([i \in 1..Len(snapshots) |-> MappingCount(i)])

RecordsPerMappingTotal ==
  SumSeq([i \in 1..Len(snapshots) |-> RecordsPerMapping(i)])

RecordsOfAllEndStatesTotal ==
  SumSeq([i \in 1..Len(snapshots) |-> RecordsOfAllEndStates(i)])

RecordsOfFirstEndStateTotal ==
  SumSeq([i \in 1..Len(snapshots) |-> RecordsOfFirstEndState(i)])

PassWalked ==
  /\ err = "ok"
  /\ pc \in {"process_merge", "process_return", "allocate_buffer", "prepare",
             "write_corpus", "write_elements", "write_checksum", "return",
             "done"}

\* The offsets at which the records of the lists allocated in block b lie:
\* list Ref plus j times the record size.
RecordSlots(b, record_size) ==
  UNION { {l[k].byte_offset + j * record_size :
             j \in 0..((l[k].size \div record_size) - 1)} :
          l \in {AllocationsOf(alog, b)}, k \in 1..Len(AllocationsOf(alog, b)) }

RecordStores(b, type) ==
  {wlog[k].byte_offset :
     k \in {h \in 1..Len(wlog) : wlog[h].block = b /\ wlog[h].type = type}}

RecordsAtSlots ==
  Emitted =>
    /\ RecordStores("memory_mapping_block", "SnapMemoryMapping")
         = RecordSlots("memory_mapping_block", SizeofSnapMemoryMapping)
    /\ RecordStores("memory_bytes_block", "SnapMemoryBytes")
         = RecordSlots("memory_bytes_block", SizeofSnapMemoryBytes)

C33_RecordArrays ==
  PassWalked =>
    /\ blocks["memory_mapping_block"].size
         = SizeofSnapMemoryMapping * MappingsTotal
    /\ blocks["memory_bytes_block"].size
         = SizeofSnapMemoryBytes
             * (RecordsPerMappingTotal
                + RecordsOfAllEndStatesTotal)
    /\ RecordsAtSlots

\* What the walk does: of every snapshot the records of the first expected
\* end state are laid out, those of further end states are not.
RecordArraysOfFirstEndStates ==
  PassWalked =>
    /\ blocks["memory_mapping_block"].size
         = SizeofSnapMemoryMapping * MappingsTotal
    /\ blocks["memory_bytes_block"].size
         = SizeofSnapMemoryBytes
             * (RecordsPerMappingTotal
                + RecordsOfFirstEndStateTotal)
    /\ RecordsAtSlots

\* C34: FetchInstruction returns an error only if one of its two
\* PTRACE_PEEKTEXT reads failed, and otherwise returns the first 15 bytes
\* read; a non-zero errno left over from before the call does not turn two
\* successful reads into an error.
\* A read of the call has failed: a word read so far is not mapped.
SomeReadFailed ==
  \E k \in 0..fetch_i :
    k < BufWords /\ tracee[ReadAddr(fetch_addr, k)] = Unmapped

C34_FetchErrorOnlyOnFailedRead ==
  fetch_pc = "returned" =>
    IF SomeReadFailed THEN ~fetch_result.ok
    ELSE /\ fetch_result.ok
         /\ fetch_result.ok =>
              /\ fetch_result.value.start_address = fetch_addr
              /\ fetch_result.value.byte_values
                   = SubSeq(tracee[fetch_addr]
                              \o tracee[fetch_addr + SizeofWord], 1,
                            kMaxX86InsnLength)

\* C35: may_have_split_lock returns true exactly when the instruction is
\* locking, has exactly one memory operand, the operand address A resolves
\* from the registers, and (A mod cache line size) + operand size exceeds the
\* cache line size; it returns false in every other case, also when the
\* address does not resolve.
\* a mod n, with a mod 0 read as a.
Mod(a, n) == IF n = 0 THEN a ELSE a % n

StraddlesLine(insn, line_size) ==
  Mod(insn.operand_address_or.value, line_size) + insn.memory_operand_length
    > line_size

C35_SplitLock ==
  split_pc = "returned" =>
    split_result
      = ( /\ is_locking(xed_insn)
          /\ xed_insn.number_of_memory_operands = 1
          /\ xed_insn.operand_address_or.ok
          /\ StraddlesLine(xed_insn, l1_cache_line_size) )

\* The claim where the cache line size is a power of two.
SplitLockOfPowerOfTwo ==
  (split_pc = "returned" /\ l1_cache_line_size = 64) =>
    split_result
      = ( /\ is_locking(xed_insn)
          /\ xed_insn.number_of_memory_operands = 1
          /\ xed_insn.operand_address_or.ok
          /\ StraddlesLine(xed_insn, l1_cache_line_size) )

\* C36: however many DecodedInsn objects are constructed and from however
\* many threads, the one-time initialisation in Decode runs exactly once and
\* has completed before any Decode call proceeds to decode; so
\* l1_cache_line_size is initialised before may_have_split_lock reads it.
InitCompleted ==
  /\ xed_initialized_once_ = "done"
  /\ init_runs = 1
  /\ initialised = InitParts

C36_InitialisedOnce ==
  /\ init_runs <= 1
  /\ \A t \in Threads :
       thread_pc[t] \in {"xed_decode", "may_have_split_lock"}
         => InitCompleted
  /\ Constructed > 0 => InitCompleted

C36_Witness ==
  /\ num_insns = MaxInsns
  /\ \E t, u \in Threads :
       /\ thread_pc[t] = "xed_decode"
       /\ thread_pc[u] = "may_have_split_lock"

\* C37: for a non-empty bitset ChooseRandomBit returns the index of a set
\* bit and leaves the bitset unchanged, and PopRandomBit returns the index of
\* a set bit and clears exactly that bit; popping until the bitset is empty
\* terminates after as many pops as there were set bits and yields each
\* originally set index exactly once.
ChosenIsSet == bit_pc = "chosen" => (chosen_bit \in bitset /\ bitset = bits_set)

PopClearsItsBit ==
  popped_bits' # popped_bits =>
    /\ popped_bits'[Len(popped_bits')] \in bitset
    /\ bitset' = bitset \ {popped_bits'[Len(popped_bits')]}

PoppedAllOnce ==
  bit_pc = "done" =>
    /\ Len(popped_bits) = Cardinality(bits_set)
    /\ {popped_bits[i] : i \in 1..Len(popped_bits)} = bits_set

====
